---- MODULE Spec2Model ----
(***************************************************************************)
(* Session manager (CookUnityAuth) and GraphQL gateway                     *)
(* (CookUnityAPI.executeGraphQL) of the CookUnity MCP server.              *)
(*                                                                         *)
(* Each invocation of executeGraphQL is a process that advances from one   *)
(* await to the next; a step is the synchronous code that runs when the    *)
(* awaited network response arrives.  The JavaScript run-to-completion     *)
(* rule makes every such step atomic, and the continuation of              *)
(* `await this.authenticate()` / `await this.auth.getAccessToken()` runs   *)
(* in the same microtask drain as the step that resolved it, so the write  *)
(* of this.tokens, the return of the token and the sending of the data     *)
(* POST form one step.  What a step returned, threw or sent is recorded in *)
(* the variable event, which every step overwrites.                        *)
(***************************************************************************)
EXTENDS Integers, Sequences, FiniteSets, TLC

(***************************************************************************)
(* Bounds of the model.                                                    *)
(***************************************************************************)
MaxSeconds == 2
MaxTokens == 2

(***************************************************************************)
(* Program constants.                                                      *)
(***************************************************************************)
VALIDITY_MARGIN_MS == 60000
DEFAULT_EXPIRES_IN == 86400
MS_PER_SECOND == 1000
MAX_HOPS == 5
MENU_SERVICE_URL == "https://subscription.cookunity.com/menu-service/graphql"
SUBSCRIPTION_URL == "https://subscription.cookunity.com/subscription-back/graphql/user"

\* the concurrent invocations of executeGraphQL
Callers == {"A", "B"}
Endpoints == {MENU_SERVICE_URL, SUBSCRIPTION_URL}

\* this.tokens = null
NULL == [null |-> TRUE]

\* JavaScript truthiness of an optional string field of an object
Truthy(obj, key) == key \in DOMAIN obj /\ obj[key] # ""

VARIABLES
  clock,    \* Date.now(), in milliseconds
  tokens,   \* CookUnityAuth.tokens: NULL or an AuthTokens record
  pc,       \* per invocation: the await it is suspended at ("idle": not running)
  hop,      \* per invocation: loop variable i of the redirect loop
  target,   \* per invocation: the endpoint argument of executeGraphQL
  issued,   \* number of access tokens the identity provider has issued
  event     \* what the last step returned, threw and sent

vars == <<clock, tokens, pc, hop, target, issued, event>>

\* One invocation of a tool handler (src/tools): the handler runs from one
\* awaited api call to the next; each api method sends one GraphQL operation
\* through executeGraphQL and returns its data or throws its error.
VARIABLES
  tool,     \* the tool invoked ("none" before the first invocation)
  params,   \* its validated input
  at,       \* the api call the handler awaits, "idle" or "returned"
  local,    \* the handler's local variables that outlive an await
  calls,    \* the api calls this invocation has made, in order
  reply     \* the tool result handed to the invoker

toolVars == <<tool, params, at, local, calls, reply>>

\* One evaluation of helpers.getNextMonday
VARIABLES
  today,        \* what new Date() gave: an instant and the process's time zone
  defaultDate   \* the date string returned ("none" before the first evaluation)

dateVars == <<today, defaultDate>>

allVars == <<vars, toolVars, dateVars>>

(***************************************************************************)
(* Error values.  Every error the code throws itself is a plain Error; the *)
(* HTTP client rejects with an AxiosError that carries the response when   *)
(* there was one.                                                          *)
(***************************************************************************)
PlainError(message) == [name |-> "Error", message |-> message]

HttpError(status, statusText, data) ==
  [name |-> "AxiosError",
   message |-> "Request failed with status code " \o ToString(status),
   response |-> [status |-> status, statusText |-> statusText, data |-> data]]

TimeoutError == [name |-> "AxiosError", message |-> "timeout of 30000ms exceeded"]

isAxiosError(error) == error.name = "AxiosError"

\* The rejections the identity provider's endpoints can produce
AuthErrors ==
  { HttpError(403, "Forbidden",
              [error_description |-> "Wrong email or password.", message |-> "access_denied"]),
    HttpError(400, "Bad Request", [message |-> "Invalid request body"]),
    HttpError(500, "Internal Server Error", [error_description |-> "", message |-> ""]),
    HttpError(502, "Bad Gateway", [html |-> "<html>"]),
    TimeoutError }

\* The rejections a data endpoint can produce
DataErrors ==
  { HttpError(401, "Unauthorized", [message |-> "jwt expired"]),
    HttpError(429, "Too Many Requests", [message |-> "slow down"]),
    HttpError(500, "Internal Server Error", [html |-> "<html>"]),
    TimeoutError }

(***************************************************************************)
(* CookUnityAuth                                                           *)
(***************************************************************************)
\* the margin compared with <= instead of <
isTokenValid_inclusive(t, now) == now <= t.expires_at - VALIDITY_MARGIN_MS

isTokenValid(t, now) == now < t.expires_at - VALIDITY_MARGIN_MS

\* the validity test inverted
HasValidToken_inverted(t, now) == t # NULL /\ ~(now < t.expires_at - VALIDITY_MARGIN_MS)

\* the validity test left out: any cached token is reused
HasValidToken_ignoreExpiry(t, now) == t # NULL

\* the condition of getAccessToken's fast path
HasValidToken(t, now) == t # NULL /\ isTokenValid(t, now)

\* the message field preferred to error_description
getErrorMessage_messageFirst(error) ==
  IF isAxiosError(error) /\ "response" \in DOMAIN error
       /\ Truthy(error.response.data, "message")
    THEN error.response.data.message
  ELSE IF isAxiosError(error) /\ "response" \in DOMAIN error
       /\ Truthy(error.response.data, "error_description")
    THEN error.response.data.error_description
  ELSE IF isAxiosError(error) /\ "response" \in DOMAIN error
    THEN "HTTP " \o ToString(error.response.status) \o ": " \o error.response.statusText
  ELSE error.message

getErrorMessage(error) ==
  IF isAxiosError(error) /\ "response" \in DOMAIN error
       /\ Truthy(error.response.data, "error_description")
    THEN error.response.data.error_description
  ELSE IF isAxiosError(error) /\ "response" \in DOMAIN error
       /\ Truthy(error.response.data, "message")
    THEN error.response.data.message
  ELSE IF isAxiosError(error) /\ "response" \in DOMAIN error
       /\ error.response.status # 0
    THEN "HTTP " \o ToString(error.response.status) \o ": " \o error.response.statusText
  ELSE error.message

\* the error authenticate's catch block throws
AuthenticationFailed(error) ==
  PlainError("Authentication failed: " \o getErrorMessage(error))

\* tokenData.access_token, 0 standing for undefined
AccessTokenOf(tokenData) ==
  IF "access_token" \in DOMAIN tokenData THEN tokenData.access_token ELSE 0

\* tokenData.expires_in ?? 86400
ExpiresInOf(tokenData) ==
  IF "expires_in" \in DOMAIN tokenData THEN tokenData.expires_in ELSE DEFAULT_EXPIRES_IN

\* the expiry duration added as it came, in seconds
NewTokens_noConversion(tokenData, now) ==
  [access_token |-> AccessTokenOf(tokenData),
   refresh_token |-> IF "refresh_token" \in DOMAIN tokenData
                       THEN tokenData.refresh_token ELSE "undefined",
   expires_at |-> now + ExpiresInOf(tokenData)]

\* the object literal assigned to this.tokens
NewTokens(tokenData, now) ==
  [access_token |-> AccessTokenOf(tokenData),
   refresh_token |-> IF "refresh_token" \in DOMAIN tokenData
                       THEN tokenData.refresh_token ELSE "undefined",
   expires_at |-> now + ExpiresInOf(tokenData) * MS_PER_SECOND]

\* a renewal that keeps the expiry of the token it replaces
TokensAfterExchange_keepExpiry(old, tokenData, now) ==
  IF AccessTokenOf(tokenData) = 0 THEN old
  ELSE IF old = NULL THEN NewTokens(tokenData, now)
  ELSE [NewTokens(tokenData, now) EXCEPT !.expires_at = old.expires_at]

\* the assignment moved before the check of access_token
TokensAfterExchange_writeFirst(old, tokenData, now) == NewTokens(tokenData, now)

\* this.tokens after the token-exchange response was processed: the check of
\* access_token comes before the assignment
TokensAfterExchange(old, tokenData, now) ==
  IF AccessTokenOf(tokenData) = 0 THEN old ELSE NewTokens(tokenData, now)

(***************************************************************************)
(* Responses of the identity provider                                      *)
(***************************************************************************)
\* r1.data
TicketResponses == { [login_ticket |-> "ticket"], [login_ticket |-> ""], [co_id |-> "x"] }

Codes == {"code-a", "code-b"}

\* r.headers of a 302 response; location is given already resolved and
\* parsed, as its search parameters
AuthorizeResponses ==
  { [location |-> [state |-> "s"]], [location |-> [code |-> ""]], [server |-> "auth0"] }
  \cup { [location |-> [code |-> k]] : k \in Codes }

ExpiresInValues == {30, 61}

\* r4.data when the provider issues its token number n
TokenResponses(n) ==
  { [access_token |-> n, expires_in |-> e] : e \in ExpiresInValues }
  \cup { [access_token |-> n, refresh_token |-> "refresh"] }

\* r4.data without an access token
EmptyTokenResponses == { [expires_in |-> 61], [access_token |-> 0] }

(***************************************************************************)
(* CookUnityAPI.executeGraphQL                                             *)
(***************************************************************************)
\* only the first message reported
Join_firstOnly(msgs, sep) == IF Len(msgs) = 0 THEN "" ELSE msgs[1]

RECURSIVE Join(_, _)
\* Array.prototype.join
Join(msgs, sep) ==
  IF Len(msgs) = 0 THEN ""
  ELSE IF Len(msgs) = 1 THEN msgs[1]
  ELSE msgs[1] \o sep \o Join(Tail(msgs), sep)

\* the POST sent without the token
PostRequest_noToken(endpoint, token) == [to |-> endpoint, Authorization |-> 0]

\* the POST of executeGraphQL
PostRequest(endpoint, token) == [to |-> endpoint, Authorization |-> token]

\* response.data of an HTTP-successful data call
GraphQLBodies ==
  { [data |-> "payload"],
    [data |-> "partial", errors |-> <<"Meal not found">>],
    [errors |-> <<"Out of stock", "Invalid date">>],
    [data |-> "payload", errors |-> <<>>] }

\* the catch block without the 429 case
MapDataError_no429(error) ==
  IF isAxiosError(error)
    THEN IF "response" \in DOMAIN error /\ error.response.status = 401
           THEN PlainError("Authentication expired. Please check your COOKUNITY_EMAIL and COOKUNITY_PASSWORD.")
         ELSE PlainError("CookUnity API error (HTTP "
                         \o (IF "response" \in DOMAIN error
                               THEN ToString(error.response.status) ELSE "unknown")
                         \o "): " \o error.message)
    ELSE error

\* the catch block of executeGraphQL
MapDataError(error) ==
  IF isAxiosError(error)
    THEN IF "response" \in DOMAIN error /\ error.response.status = 401
           THEN PlainError("Authentication expired. Please check your COOKUNITY_EMAIL and COOKUNITY_PASSWORD.")
         ELSE IF "response" \in DOMAIN error /\ error.response.status = 429
           THEN PlainError("Rate limited by CookUnity API. Please wait before retrying.")
         ELSE PlainError("CookUnity API error (HTTP "
                         \o (IF "response" \in DOMAIN error
                               THEN ToString(error.response.status) ELSE "unknown")
                         \o "): " \o error.message)
    ELSE error

\* what executeGraphQL does with an HTTP-successful response
BodyResult(body) ==
  IF "errors" \in DOMAIN body
    THEN [kind |-> "error",
          error |-> MapDataError(PlainError("GraphQL errors: " \o Join(body.errors, ", ")))]
    ELSE [kind |-> "data", data |-> body.data]

(***************************************************************************)
(* The state after construction: no token, nothing in flight.              *)
(***************************************************************************)
NoTarget == "none"

NoParams == [none |-> TRUE]
NoLocals == [none |-> TRUE]
NoReply == [none |-> TRUE]
NoDay == [none |-> TRUE]

Init ==
  /\ clock = 0
  /\ tokens = NULL
  /\ pc = [c \in Callers |-> "idle"]
  /\ hop = [c \in Callers |-> 0]
  /\ target = [c \in Callers |-> NoTarget]
  /\ issued = 0
  /\ event = [type |-> "init"]
  /\ tool = "none"
  /\ params = NoParams
  /\ at = "idle"
  /\ local = NoLocals
  /\ calls = <<>>
  /\ reply = NoReply
  /\ today = NoDay
  /\ defaultDate = "none"

\* the clock advances by one second
Tick ==
  /\ clock < MaxSeconds * MS_PER_SECOND
  /\ clock' = clock + MS_PER_SECOND
  /\ event' = [type |-> "tick"]
  /\ UNCHANGED <<toolVars, dateVars, tokens, pc, hop, target, issued>>

\* executeGraphQL is called and getAccessToken finds a valid cached token:
\* it returns it and the POST is sent
CallCached(c, endpoint) ==
  /\ pc[c] = "idle"
  /\ HasValidToken(tokens, clock)
  /\ pc' = [pc EXCEPT ![c] = "post"]
  /\ target' = [target EXCEPT ![c] = endpoint]
  /\ event' = [type |-> "token", caller |-> c, path |-> "cached",
               token |-> tokens.access_token, at |-> clock,
               expires_at |-> tokens.expires_at,
               request |-> PostRequest(endpoint, tokens.access_token)]
  /\ UNCHANGED <<toolVars, dateVars, clock, tokens, hop, issued>>

\* executeGraphQL is called and getAccessToken finds no valid token:
\* authenticate starts and sends the login-ticket request
CallRenew(c, endpoint) ==
  /\ pc[c] = "idle"
  /\ ~HasValidToken(tokens, clock)
  /\ pc' = [pc EXCEPT ![c] = "ticket"]
  /\ target' = [target EXCEPT ![c] = endpoint]
  /\ event' = [type |-> "request", caller |-> c, request |-> [to |-> "/co/authenticate"]]
  /\ UNCHANGED <<toolVars, dateVars, clock, tokens, hop, issued>>

\* authenticate's catch block: the error is wrapped and rethrown through
\* getAccessToken and executeGraphQL to the caller; slot is this.tokens as the
\* try block left it (the catch block assigns nothing)
Fail(c, error, slot) ==
  /\ event' = [type |-> "threw", caller |-> c, stage |-> "auth", cause |-> error,
               error |-> AuthenticationFailed(error)]
  /\ pc' = [pc EXCEPT ![c] = "idle"]
  /\ hop' = [hop EXCEPT ![c] = 0]
  /\ target' = [target EXCEPT ![c] = NoTarget]
  /\ tokens' = slot
  /\ UNCHANGED <<toolVars, dateVars, clock, issued>>

\* r1.data?.login_ticket as URLSearchParams writes it into the authorize URL
LoginTicketOf(data) ==
  IF "login_ticket" \in DOMAIN data THEN data.login_ticket ELSE "undefined"

\* the check of the login ticket left out
HasLoginTicket_unchecked(data) == TRUE

\* the login ticket is there: !loginTicket is false
HasLoginTicket(data) == Truthy(data, "login_ticket")

\* step 1 answered
TicketResponse(c) ==
  /\ pc[c] = "ticket"
  /\ \/ \E e \in AuthErrors : Fail(c, e, tokens)
     \/ \E data \in TicketResponses :
          IF HasLoginTicket(data)
            THEN /\ pc' = [pc EXCEPT ![c] = "authorize"]
                 /\ hop' = [hop EXCEPT ![c] = 0]
                 /\ event' = [type |-> "request", caller |-> c,
                              request |-> [to |-> "/authorize", hop |-> 0,
                                           login_ticket |-> LoginTicketOf(data)]]
                 /\ UNCHANGED <<toolVars, dateVars, clock, tokens, target, issued>>
            ELSE Fail(c, PlainError("Failed to get login ticket"), tokens)

\* the loop allowed twice as many iterations
LoopContinues_twice(i) == i < 2 * MAX_HOPS

\* the loop condition taken inclusively
LoopContinues_inclusive(i) == i <= MAX_HOPS

\* the condition of the redirect loop, for (let i = 0; i < 5; i++), tested
\* after the increment
LoopContinues(i) == i < MAX_HOPS

\* one iteration of the redirect loop answered
AuthorizeResponse(c) ==
  /\ pc[c] = "authorize"
  /\ \/ \E e \in AuthErrors : Fail(c, e, tokens)
     \/ \E headers \in AuthorizeResponses :
          IF "location" \notin DOMAIN headers
            THEN Fail(c, PlainError("No redirect location in authorize flow"), tokens)
          ELSE IF Truthy(headers.location, "code")
            THEN /\ pc' = [pc EXCEPT ![c] = "exchange"]
                 /\ hop' = [hop EXCEPT ![c] = 0]
                 /\ event' = [type |-> "request", caller |-> c,
                              request |-> [to |-> "/oauth/token",
                                           code |-> headers.location.code],
                              hops |-> hop[c] + 1]
                 /\ UNCHANGED <<toolVars, dateVars, clock, tokens, target, issued>>
          ELSE IF LoopContinues(hop[c] + 1)
            THEN /\ hop' = [hop EXCEPT ![c] = hop[c] + 1]
                 /\ event' = [type |-> "request", caller |-> c,
                              request |-> [to |-> "/authorize", hop |-> hop[c] + 1,
                                           url |-> headers.location]]
                 /\ UNCHANGED <<toolVars, dateVars, clock, tokens, pc, target, issued>>
          ELSE Fail(c, PlainError("Failed to obtain authorization code"), tokens)

\* step 3 answered: on success the token is stored, getAccessToken returns
\* this.tokens.access_token and executeGraphQL sends its POST
ExchangeResponse(c) ==
  /\ pc[c] = "exchange"
  /\ \/ \E e \in AuthErrors : Fail(c, e, tokens)
     \/ \E tokenData \in EmptyTokenResponses :
          Fail(c, PlainError("Failed to get access token"),
               TokensAfterExchange(tokens, tokenData, clock))
     \/ /\ issued < MaxTokens
        /\ \E tokenData \in TokenResponses(issued + 1) :
             LET slot == TokensAfterExchange(tokens, tokenData, clock) IN
             /\ tokens' = slot
             /\ issued' = issued + 1
             /\ pc' = [pc EXCEPT ![c] = "post"]
             /\ event' = [type |-> "token", caller |-> c, path |-> "renewed",
                          token |-> slot.access_token, at |-> clock,
                          expires_at |-> slot.expires_at,
                          tokenData |-> tokenData,
                          request |-> PostRequest(target[c], slot.access_token)]
             /\ UNCHANGED <<toolVars, dateVars, clock, hop, target>>

\* a 401 answered by authenticating again
AfterPost_reauthenticate(res) ==
  IF res.kind = "error"
       /\ res.error.message = "Authentication expired. Please check your COOKUNITY_EMAIL and COOKUNITY_PASSWORD."
    THEN "ticket" ELSE "idle"

\* where executeGraphQL continues once the POST is answered: it returns the
\* data or throws the mapped error, there is no loop around the request
AfterPost(res) == "idle"

\* the session dropped when the data endpoint answers 401
TokensAfterPost_clearOn401(old, res) ==
  IF res.kind = "error"
       /\ res.error.message = "Authentication expired. Please check your COOKUNITY_EMAIL and COOKUNITY_PASSWORD."
    THEN NULL ELSE old

\* this.tokens once the POST is answered: executeGraphQL holds no reference
\* to the session and neither its try nor its catch block calls into it
TokensAfterPost(old, res) == old

\* the data POST answered
PostResponse(c) ==
  /\ pc[c] = "post"
  /\ \/ \E body \in GraphQLBodies :
          event' = [type |-> "settled", caller |-> c, body |-> body,
                    result |-> BodyResult(body)]
     \/ \E e \in DataErrors :
          event' = [type |-> "settled", caller |-> c, cause |-> e,
                    result |-> [kind |-> "error", error |-> MapDataError(e)]]
  /\ pc' = [pc EXCEPT ![c] = AfterPost(event'.result)]
  /\ target' = [target EXCEPT ![c] = NoTarget]
  /\ tokens' = TokensAfterPost(tokens, event'.result)
  /\ UNCHANGED <<toolVars, dateVars, clock, hop, issued>>

Next ==
  \/ Tick
  \/ \E c \in Callers, endpoint \in Endpoints : CallCached(c, endpoint)
  \/ \E c \in Callers, endpoint \in Endpoints : CallRenew(c, endpoint)
  \/ \E c \in Callers : TicketResponse(c)
  \/ \E c \in Callers : AuthorizeResponse(c)
  \/ \E c \in Callers : ExchangeResponse(c)
  \/ \E c \in Callers : PostResponse(c)

Spec == Init /\ [][Next]_vars

\* every authorize request is answered: the HTTP client rejects a request
\* that got no response within its timeout
LiveSpec == Spec /\ \A c \in Callers : WF_vars(AuthorizeResponse(c))

(***************************************************************************)
(* Properties                                                              *)
(***************************************************************************)
\* a call of executeGraphQL begins in this step
Begins(c) == pc[c] = "idle" /\ pc'[c] # "idle"

\* the cached token passes the validity margin now
Usable == tokens # NULL /\ clock < tokens.expires_at - 60000

\* the step returned a token from getAccessToken
TokenReturned == event.type = "token"

\* the step ended a call with an authentication failure
AuthFailed == event.type = "threw" /\ event.stage = "auth"

\* C1: every token getAccessToken returns is inside its validity margin at
\* the moment it is returned: now < expires_at - 60 s
C1_ReturnedTokenUsable ==
  TokenReturned => event.at < event.expires_at - 60000

\* C2: a cached token is treated as valid (the call takes the cached path)
\* if and only if now < expires_at - 60000 ms, strictly
C2_ValidIffBeforeMargin ==
  [][\A c \in Callers :
       (Begins(c) /\ tokens # NULL)
         => (pc'[c] = "post" <=> clock < tokens.expires_at - 60000)]_vars

\* C2 witness: a call made exactly 60 s before the expiry of the cached
\* token started a handshake
C2_Witness ==
  /\ event.type = "request" /\ event.request.to = "/co/authenticate"
  /\ tokens # NULL /\ clock = tokens.expires_at - 60000

\* C3: with a cached token inside the validity margin, getAccessToken returns
\* that token without a request to the identity provider and without
\* changing the cache: a second call returns the identical token and no
\* further handshake is performed
C3_CachedTokenReused ==
  [][\A c \in Callers :
       (Begins(c) /\ Usable)
         => /\ pc'[c] = "post"
            /\ event'.type = "token" /\ event'.caller = c /\ event'.path = "cached"
            /\ event'.token = tokens.access_token
            /\ event'.request.to \in Endpoints
            /\ tokens' = tokens
            /\ issued' = issued]_vars

\* C3 witness: a call returned the cached token
C3_Witness == TokenReturned /\ event.path = "cached" /\ event.token = issued

\* C4: a call that finds no token or an expired token starts exactly one
\* handshake, the same way in both cases; a handshake starts only in such a
\* call, never at construction; a successful handshake stores the new token
\* in the cache in the step that returns it
C4_LazyRenewal ==
  /\ \A c \in Callers : pc[c] = "idle"
  /\ [][\A c \in Callers :
          /\ (Begins(c) /\ ~Usable)
               => /\ pc'[c] = "ticket"
                  /\ event' = [type |-> "request", caller |-> c,
                               request |-> [to |-> "/co/authenticate"]]
                  /\ tokens' = tokens
          /\ (pc'[c] = "ticket" /\ pc[c] # "ticket") => (Begins(c) /\ ~Usable)
          /\ (pc[c] = "exchange" /\ pc'[c] = "post")
               => /\ tokens' # NULL
                  /\ tokens'.access_token = event'.tokenData.access_token
                  /\ event'.token = tokens'.access_token]_vars

\* C4 witness: a call that found an expired token started a handshake
C4_Witness ==
  /\ event.type = "request" /\ event.request.to = "/co/authenticate"
  /\ tokens # NULL /\ clock >= tokens.expires_at - 60000

\* C5: the single token slot only ever changes to the whole token of the
\* handshake that completes in that step (its access token with the expiry
\* computed from its own response), and a caller whose handshake succeeds
\* returns a token the provider issued
C5_SharedSlotConsistent ==
  /\ [][tokens' # tokens
          => /\ event'.type = "token" /\ event'.path = "renewed"
             /\ tokens'.access_token = event'.tokenData.access_token
             /\ tokens'.expires_at =
                  clock + 1000 * (IF "expires_in" \in DOMAIN event'.tokenData
                                    THEN event'.tokenData.expires_in ELSE 86400)]_vars
  /\ [](TokenReturned /\ event.path = "renewed"
          => event.token \in 1..issued /\ tokens.access_token = event.token)

\* C5 witness: a handshake completed, replacing a cached token, while the
\* other invocation's handshake was still in flight
C5_Witness ==
  /\ TokenReturned /\ event.path = "renewed" /\ issued > 1
  /\ \E d \in Callers \ {event.caller} : pc[d] = "exchange"

\* C6: a handshake that fails writes no session state, the slot changes only
\* when a handshake succeeds, and after a failure the next call that finds no
\* valid token starts a fresh handshake
C6_FailureWritesNothing ==
  [][/\ (event'.type = "threw" /\ event'.stage = "auth" /\ pc' # pc)
          => (tokens' = tokens /\ issued' = issued)
     /\ (tokens' # tokens) => (event'.type = "token" /\ event'.path = "renewed")
     /\ \A c \in Callers :
          (AuthFailed /\ Begins(c) /\ ~Usable) => pc'[c] = "ticket"]_vars

\* C6 witness: a handshake failed while the slot held a token stored
\* meanwhile by a concurrent handshake
C6_Witness == AuthFailed /\ Usable

\* the first non-empty string of a sequence
FirstNonEmpty(cands) ==
  cands[CHOOSE i \in 1..Len(cands) :
          cands[i] # "" /\ \A j \in 1..(i - 1) : cands[j] = ""]

\* an optional string field, "" when absent
FieldOr(obj, key) == IF key \in DOMAIN obj THEN obj[key] ELSE ""

\* the messages an error offers, most specific first
Candidates(e) ==
  IF e.name = "AxiosError" /\ "response" \in DOMAIN e
    THEN << FieldOr(e.response.data, "error_description"),
            FieldOr(e.response.data, "message"),
            "HTTP " \o ToString(e.response.status) \o ": " \o e.response.statusText,
            e.message >>
    ELSE << e.message >>

\* C7: every handshake failure reaches the caller as one error
\* 'Authentication failed: <message>' whose message is the provider's
\* error_description, else the message field, else the HTTP status line,
\* else the raw error text
C7_ConsolidatedAuthError ==
  AuthFailed =>
    /\ event.error.name = "Error"
    /\ event.error.message = "Authentication failed: " \o FirstNonEmpty(Candidates(event.cause))
    /\ pc[event.caller] = "idle"

\* C7 witness: a failure whose response carries both an error_description
\* and a message
C7_Witness ==
  /\ AuthFailed /\ "response" \in DOMAIN event.cause
  /\ FieldOr(event.cause.response.data, "error_description") # ""
  /\ FieldOr(event.cause.response.data, "message") # ""

\* C8: a data POST is sent only in the step in which the same call obtained
\* its token from getAccessToken, with exactly that token as Authorization;
\* when obtaining the token fails the call ends with the authentication
\* failure and no POST
C8_PostCarriesObtainedToken ==
  /\ [][\A c \in Callers :
          (pc'[c] = "post" /\ pc[c] # "post")
            => /\ event'.type = "token" /\ event'.caller = c
               /\ event'.request.to = target'[c]
               /\ event'.request.Authorization = event'.token
               /\ event'.token = tokens'.access_token]_vars
  /\ []((("request" \in DOMAIN event) /\ event.request.to \in Endpoints)
          => (TokenReturned /\ pc[event.caller] = "post"))
  /\ [](AuthFailed
          => /\ "request" \notin DOMAIN event
             /\ pc[event.caller] = "idle"
             /\ event.error = AuthenticationFailed(event.cause))

\* C8 witness: the POST to the subscription endpoint sent with a token
\* obtained by a handshake
C8_Witness ==
  /\ TokenReturned /\ event.path = "renewed"
  /\ event.request.to = SUBSCRIPTION_URL /\ event.request.Authorization > 0

\* the data call failed at the HTTP level
HttpFailed == event.type = "settled" /\ "cause" \in DOMAIN event

\* the status of the failed response, 0 when there was no response
StatusOf(e) == IF "response" \in DOMAIN e THEN e.response.status ELSE 0

CredentialsMessage ==
  "Authentication expired. Please check your COOKUNITY_EMAIL and COOKUNITY_PASSWORD."

RateLimitedMessage == "Rate limited by CookUnity API. Please wait before retrying."

GenericMessage(e) ==
  "CookUnity API error (HTTP "
    \o (IF StatusOf(e) = 0 THEN "unknown" ELSE ToString(StatusOf(e)))
    \o "): " \o e.message

\* C9: an HTTP-level failure of a data call is mapped by status to exactly
\* one of three distinct errors: 401 to the credentials error, 429 to the
\* rate-limited error, anything else to the generic error with the status
C9_StatusMapping ==
  HttpFailed =>
    /\ event.result.kind = "error"
    /\ event.result.error.message =
         (CASE StatusOf(event.cause) = 401 -> CredentialsMessage
            [] StatusOf(event.cause) = 429 -> RateLimitedMessage
            [] OTHER -> GenericMessage(event.cause))
    /\ CredentialsMessage # RateLimitedMessage
    /\ GenericMessage(event.cause) \notin {CredentialsMessage, RateLimitedMessage}

\* C9 witness: a data call answered with HTTP 429
C9_Witness == HttpFailed /\ StatusOf(event.cause) = 429

\* C10: the error for an HTTP 401 and the error for an HTTP 500 on a data
\* call carry different kinds (the classification of the error value, not
\* its message text)
C10_KindsDiffer ==
  [][(/\ HttpFailed /\ StatusOf(event.cause) = 401
      /\ event'.type = "settled" /\ "cause" \in DOMAIN event'
      /\ StatusOf(event'.cause) = 500)
       => event.result.error.name # event'.result.error.name]_vars


\* the data call was answered with an HTTP-successful response
BodyReceived == event.type = "settled" /\ "body" \in DOMAIN event

RECURSIVE MessagesUpTo(_, _)
\* the first n messages of an errors list, in order, separated by ", "
MessagesUpTo(msgs, n) ==
  IF n = 0 THEN ""
  ELSE IF n = 1 THEN msgs[1]
  ELSE MessagesUpTo(msgs, n - 1) \o ", " \o msgs[n]

\* C11: an HTTP-successful response with an errors list makes the call fail
\* with one error whose message joins the messages of all listed errors in
\* order, and its data payload is not returned; without an errors list the
\* call returns the data payload
C11_GraphQLErrorsConsolidated ==
  BodyReceived =>
    IF "errors" \in DOMAIN event.body
      THEN /\ event.result.kind = "error"
           /\ "data" \notin DOMAIN event.result
           /\ event.result.error.name = "Error"
           /\ event.result.error.message =
                "GraphQL errors: "
                  \o MessagesUpTo(event.body.errors, Len(event.body.errors))
      ELSE event.result = [kind |-> "data", data |-> event.body.data]

\* C11 witness: a response carrying two errors
C11_Witness ==
  /\ BodyReceived /\ "errors" \in DOMAIN event.body
  /\ Len(event.body.errors) = 2


\* the steps an invocation may take from one await to the next
CallSteps ==
  { <<"idle", "ticket">>, <<"idle", "post">>,
    <<"ticket", "authorize">>, <<"ticket", "idle">>,
    <<"authorize", "authorize">>, <<"authorize", "exchange">>, <<"authorize", "idle">>,
    <<"exchange", "post">>, <<"exchange", "idle">>,
    <<"post", "idle">> }

\* C12: no automatic retries: within one call the handshake is entered only
\* at the start and a POST is sent at most once; a failed handshake step or
\* an answered POST ends the call in that step, handing the caller that
\* outcome, with no request sent
C12_NoRetries ==
  [][\A c \in Callers :
       (pc'[c] # pc[c] \/ (pc[c] = "authorize" /\ hop'[c] # hop[c]))
         => /\ <<pc[c], pc'[c]>> \in CallSteps
            /\ (pc[c] = "authorize" /\ pc'[c] = "authorize") => hop'[c] = hop[c] + 1
            /\ (pc[c] # "idle" /\ pc'[c] = "idle")
                 => /\ event'.caller = c
                    /\ event'.type \in {"threw", "settled"}
                    /\ "request" \notin DOMAIN event'
                    /\ pc[c] = "post" <=> event'.type = "settled"]_vars

\* C12 witness: a call ended by an HTTP 401 on its POST
C12_Witness ==
  /\ HttpFailed /\ StatusOf(event.cause) = 401
  /\ pc[event.caller] = "idle"


(***************************************************************************)
(* Tool handlers                                                           *)
(***************************************************************************)
handleError_noFlag(error) == [text |-> "Error: " \o error.message]

\* helpers.handleError
handleError(error) == [text |-> "Error: " \o error.message, isError |-> TRUE]

\* a handler's own error result: { content: [{ type: "text", text }], isError: true }
ErrorResult(text) == [text |-> text, isError |-> TRUE]

\* a handler's success result: { content: [{ type: "text", text }], structuredContent }
SuccessResult(text, output) == [text |-> text, structuredContent |-> output]

\* the errors an api method can throw: those of executeGraphQL
ApiErrors ==
  { MapDataError(e) : e \in DataErrors }
  \cup { AuthenticationFailed(TimeoutError),
         PlainError("GraphQL errors: " \o Join(<<"Invalid date">>, ", ")) }

D1 == "2026-02-23"
D2 == "2026-03-02"
Dates == {D1, D2}

\* a cart line as upcomingDays returns it
CartLine(q, id, inv) == [qty |-> q, product |-> [id |-> id, inventoryId |-> inv]]

\* upcomingDays responses: the date absent, the cart missing, empty or filled,
\* a day whose date is a timestamp and only whose displayDate is the plain date
CartDays ==
  { <<>>,
    << [date |-> D1, displayDate |-> D1] >>,
    << [date |-> D1, displayDate |-> D1, cart |-> <<>>] >>,
    << [date |-> D1, displayDate |-> D1,
        cart |-> << CartLine(2, 11, "ii-1"), CartLine(1, 12, "ii-2") >>] >>,
    << [date |-> D2 \o "T05:00:00.000Z", displayDate |-> D2,
        cart |-> << CartLine(1, 12, "ii-2") >>],
       [date |-> D1, displayDate |-> D1,
        cart |-> << CartLine(1, 12, "ii-2"), CartLine(3, 11, "ii-1"),
                    CartLine(1, 13, "ii-3") >>] >> }

\* Array.prototype.find as an index, given for each element whether the
\* callback accepts it; 0 when nothing matches
FindIndex(accepted) ==
  IF \E i \in 1..Len(accepted) : accepted[i]
    THEN CHOOSE i \in 1..Len(accepted) : accepted[i] /\ \A j \in 1..(i - 1) : ~accepted[j]
    ELSE 0

\* only a missing cart counts as empty
CartEmpty_missingOnly(day) == "cart" \notin DOMAIN day

\* !day.cart || day.cart.length === 0
CartEmpty(day) == "cart" \notin DOMAIN day \/ Len(day.cart) = 0

\* every line ordered once, whatever its quantity
ProductsOf_unitQty(cart) ==
  [i \in 1..Len(cart) |-> [qty |-> 1, inventoryId |-> cart[i].product.inventoryId]]

\* day.cart.map((item) => ({ qty, inventoryId })) of confirm_order
ProductsOf(cart) ==
  [i \in 1..Len(cart) |-> [qty |-> cart[i].qty, inventoryId |-> cart[i].product.inventoryId]]

DEFAULT_START == "11:00"
DEFAULT_END == "20:00"

\* users[0] as getUserInfo returns it
UserInfoResponses ==
  { [id |-> 1],
    [id |-> 1, deliveryDays |-> <<>>],
    [id |-> 1, deliveryDays |-> << [time_start |-> "12:00", time_end |-> "18:00"],
                                   [time_start |-> "08:00", time_end |-> "10:00"] >>],
    [id |-> 1, deliveryDays |-> << [time_start |-> "09:00"] >>] }

\* what the inner try of confirm_order awaits: a profile or a thrown error
ProfileOutcomes ==
  { [ok |-> TRUE, userInfo |-> u] : u \in UserInfoResponses }
  \cup { [ok |-> FALSE, error |-> e] : e \in ApiErrors }

\* the window taken from the last delivery day instead of the first
DeliveryWindow_lastDay(outcome) ==
  IF outcome.ok /\ "deliveryDays" \in DOMAIN outcome.userInfo
       /\ Len(outcome.userInfo.deliveryDays) > 0
    THEN LET last == outcome.userInfo.deliveryDays[Len(outcome.userInfo.deliveryDays)] IN
         [start |-> IF "time_start" \in DOMAIN last THEN last.time_start ELSE DEFAULT_START,
          end |-> IF "time_end" \in DOMAIN last THEN last.time_end ELSE DEFAULT_END]
    ELSE [start |-> DEFAULT_START, end |-> DEFAULT_END]

\* start and end after the inner try/catch of confirm_order
DeliveryWindow(outcome) ==
  IF outcome.ok /\ "deliveryDays" \in DOMAIN outcome.userInfo
       /\ Len(outcome.userInfo.deliveryDays) > 0
    THEN LET first == outcome.userInfo.deliveryDays[1] IN
         [start |-> IF "time_start" \in DOMAIN first THEN first.time_start ELSE DEFAULT_START,
          end |-> IF "time_end" \in DOMAIN first THEN first.time_end ELSE DEFAULT_END]
    ELSE [start |-> DEFAULT_START, end |-> DEFAULT_END]

\* the order variable api.createOrder builds
CreateOrderInput(deliveryDate, start, end, products, options) ==
  LET base == [deliveryDate |-> deliveryDate, start |-> start, end |-> end,
               products |-> [i \in 1..Len(products) |->
                               [qty |-> products[i].qty,
                                inventoryId |-> products[i].inventoryId]]]
      withComment == IF Truthy(options, "comment")
                       THEN [k \in DOMAIN base \cup {"comment"} |->
                               IF k = "comment" THEN options.comment ELSE base[k]]
                       ELSE base
  IN IF "tip" \in DOMAIN options
       THEN [k \in DOMAIN withComment \cup {"tip"} |->
               IF k = "tip" THEN options.tip ELSE withComment[k]]
       ELSE withComment

\* the validated inputs of cookunity_confirm_order
ConfirmOrderParams ==
  { [date |-> d] : d \in Dates }
  \cup { [date |-> D1, comment |-> "Leave at the door", tip |-> 5],
         [date |-> D1, comment |-> "", tip |-> 0] }

\* data.createOrder
CreateOrderResults ==
  { [__typename |-> "OrderCreation", id |-> "o-1", deliveryDate |-> D1,
     paymentStatus |-> "paid"],
    [__typename |-> "OrderCreationError", error |-> "Some meals are out of stock",
     outOfStockIds |-> <<"ii-1", "ii-3">>],
    [__typename |-> "OrderCreationError"] }

\* the handler returns
Return(res) ==
  /\ reply' = res
  /\ at' = "returned"
  /\ UNCHANGED <<tool, params, local, calls>>

\* the handler returns, its locals being these
ReturnWith(res, locals) ==
  /\ reply' = res
  /\ at' = "returned"
  /\ local' = locals
  /\ UNCHANGED <<tool, params, calls>>

\* the locals with the error the catch clause caught
Caught(locals, error) == locals @@ [error |-> error]

\* the handler's catch clause: catch (error) { return handleError(error); }
Catch(error) == ReturnWith(handleError(error), Caught(local, error))

\* a handler is invoked and runs up to its first api call
Begin(name, p, firstCall, locals) ==
  /\ at = "idle"
  /\ tool' = name
  /\ params' = p
  /\ at' = firstCall.op
  /\ calls' = <<firstCall>>
  /\ local' = locals
  /\ reply' = NoReply

\* the handler awaits this api call of this tool
Awaiting(name, op) == tool = name /\ at = op

\* the handler makes its next api call
CallApi(call, locals) ==
  /\ calls' = Append(calls, call)
  /\ at' = call.op
  /\ local' = locals
  /\ UNCHANGED <<tool, params, reply>>

ConfirmOrderInvoke ==
  /\ \E p \in ConfirmOrderParams :
       Begin("cookunity_confirm_order", p, [op |-> "getUpcomingDays"], NoLocals)
  /\ UNCHANGED <<vars, dateVars>>

\* confirm_order: getUpcomingDays answered
ConfirmOrderDays ==
  /\ Awaiting("cookunity_confirm_order", "getUpcomingDays")
  /\ \/ \E e \in ApiErrors : Catch(e)
     \/ \E days \in CartDays :
          LET DateIs(d) == d.date = params.date
              i == FindIndex([k \in 1..Len(days) |-> DateIs(days[k])]) IN
          IF i = 0
            THEN Return(ErrorResult("No delivery found for " \o params.date
                   \o ". Check available dates with cookunity_list_deliveries."))
          ELSE IF CartEmpty(days[i])
            THEN Return(ErrorResult("Cart is empty for " \o params.date
                   \o ". Add meals first with cookunity_add_to_cart."))
          ELSE CallApi([op |-> "getUserInfo"],
                       [day |-> days[i], products |-> ProductsOf(days[i].cart)])
  /\ UNCHANGED <<vars, dateVars>>

\* confirm_order: getUserInfo answered or failed; createOrder is sent
ConfirmOrderProfile ==
  /\ Awaiting("cookunity_confirm_order", "getUserInfo")
  /\ \E outcome \in ProfileOutcomes :
       LET window == DeliveryWindow(outcome) IN
       CallApi([op |-> "createOrder",
                order |-> CreateOrderInput(params.date, window.start, window.end,
                                           local.products, params)],
               [day |-> local.day, products |-> local.products,
                profile |-> outcome, start |-> window.start, end |-> window.end])
  /\ UNCHANGED <<vars, dateVars>>

\* confirm_order: createOrder answered
ConfirmOrderCreated ==
  /\ Awaiting("cookunity_confirm_order", "createOrder")
  /\ \/ \E e \in ApiErrors : Catch(e)
     \/ \E res \in CreateOrderResults :
          IF res.__typename = "OrderCreationError"
            THEN ReturnWith(ErrorResult(
                   "Order failed: "
                     \o (IF Truthy(res, "error") THEN res.error ELSE "Unknown error")
                     \o (IF "outOfStockIds" \in DOMAIN res /\ Len(res.outOfStockIds) > 0
                           THEN " Out of stock: " \o Join(res.outOfStockIds, ", ")
                           ELSE "")),
                   local @@ [result |-> res])
            ELSE ReturnWith(SuccessResult(
                   "Order confirmed for " \o params.date \o "! "
                     \o ToString(Len(local.products)) \o " meals locked in. Order ID: "
                     \o res.id,
                   [success |-> TRUE, order_id |-> res.id,
                    delivery_date |-> res.deliveryDate,
                    payment_status |-> res.paymentStatus,
                    meals_confirmed |-> Len(local.products)]),
                   local @@ [result |-> res])
  /\ UNCHANGED <<vars, dateVars>>

\* the validated inputs of cookunity_get_price_breakdown
PriceBreakdownParams ==
  { [response_format |-> "json"], [response_format |-> "json", meals |-> <<>>] }
  \cup { [response_format |-> "json", date |-> d] : d \in Dates }
  \cup { [response_format |-> "json", date |-> D1,
          meals |-> << [entityId |-> 11, quantity |-> 2, inventoryId |-> "ii-1"],
                       [entityId |-> 14, quantity |-> 1, inventoryId |-> "ii-4"] >>] }

\* the days of time handled, counted from Monday 2026-02-16 00:00 UTC
MaxDays == 8

HOURS_PER_DAY == 24
DAYS_PER_WEEK == 7

\* the offsets from UTC, in hours, of the time zones the process may run in
Zones == {-5, 0, 2}

\* what new Date() can give: an instant, in hours since Monday 2026-02-16
\* 00:00 UTC, read in a time zone
Todays == [now : 0..(MaxDays * HOURS_PER_DAY - 1), zone : Zones]

\* toISOString().split("T")[0] of an instant of each UTC day from 2026-02-16
ISODates ==
  << "2026-02-16", "2026-02-17", "2026-02-18", "2026-02-19", "2026-02-20",
     "2026-02-21", "2026-02-22", "2026-02-23", "2026-02-24", "2026-02-25",
     "2026-02-26", "2026-02-27", "2026-02-28", "2026-03-01", "2026-03-02",
     "2026-03-03", "2026-03-04", "2026-03-05", "2026-03-06", "2026-03-07",
     "2026-03-08", "2026-03-09", "2026-03-10" >>

\* the local time of an instant in a zone, in hours since the same origin
LocalHours(t) == t.now + t.zone

\* the day of an hour count
DayOf(hours) == hours \div HOURS_PER_DAY

\* Date.prototype.getDay in the process's zone: 0 is Sunday, day 0 a Monday
getDay(t) == (DayOf(LocalHours(t)) + 1) % DAYS_PER_WEEK

\* the UTC day of the instant getNextMonday builds: its local date moved on
\* by setDate, its local time of day kept
NextMondayDay(t) ==
  LET dayOfWeek == getDay(t)
      daysUntilMonday == IF dayOfWeek = 0 THEN 1 ELSE 8 - dayOfWeek
      nextMonday == LocalHours(t) + daysUntilMonday * HOURS_PER_DAY IN
  DayOf(nextMonday - t.zone)

\* helpers.getNextMonday: the UTC date of that instant
getNextMonday(t) == ISODates[NextMondayDay(t) + 1]

\* the times of the invocations that take the default date: a Wednesday
\* noon and the following Monday noon in UTC, and a Sunday 20:00 in UTC-5
InvocationTimes ==
  { [now |-> 2 * HOURS_PER_DAY + 12, zone |-> 0],
    [now |-> 7 * HOURS_PER_DAY + 12, zone |-> 0],
    [now |-> 7 * HOURS_PER_DAY + 1, zone |-> -5] }

\* params.date ?? getNextMonday(), given what getNextMonday() returns now
DateOrDefault(p, nextMonday) == IF "date" \in DOMAIN p THEN p.date ELSE nextMonday

HasExplicitMeals_truthy(p) == "meals" \in DOMAIN p

\* params.meals && params.meals.length > 0
HasExplicitMeals(p) == "meals" \in DOMAIN p /\ Len(p.meals) > 0

\* params.meals.map((m) => ({ entityId, quantity, inventoryId }))
MealsOfParams(meals) ==
  [i \in 1..Len(meals) |->
     [entityId |-> meals[i].entityId, quantity |-> meals[i].quantity,
      inventoryId |-> meals[i].inventoryId]]

\* day.cart.map((c) => ({ entityId: c.product.id, quantity: c.qty, inventoryId }))
MealsOfCart(cart) ==
  [i \in 1..Len(cart) |->
     [entityId |-> cart[i].product.id, quantity |-> cart[i].qty,
      inventoryId |-> cart[i].product.inventoryId]]

\* data.getOrderDetail, amounts in hundredths of a dollar
PriceBreakdowns ==
  { [qtyPlanMeals |-> 6, qtyItems |-> 6, totalPlanPrice |-> 8394, totalExtraMeals |-> 0,
     totalTaxes |-> 745, totalDeliveryFee |-> 999, totalExpressFee |-> 0, totalFee |-> 999,
     subTotalOrder |-> 8394, totalPromoDiscount |-> 0, totalOrder |-> 10138,
     availableCredits |-> 0, totalOrderWithCreditsSubtracted |-> 10138],
    [qtyPlanMeals |-> 6, qtyItems |-> 7, totalPlanPrice |-> 8394, totalExtraMeals |-> 1399,
     totalTaxes |-> 869, totalDeliveryFee |-> 999, totalExpressFee |-> 0, totalFee |-> 999,
     subTotalOrder |-> 8394, totalPromoDiscount |-> 500, totalOrder |-> 11161,
     availableCredits |-> 1000, totalOrderWithCreditsSubtracted |-> 10161] }

\* the output object of cookunity_get_price_breakdown
PriceOutput(date, b) ==
  [date |-> date, qty_plan_meals |-> b.qtyPlanMeals, qty_items |-> b.qtyItems,
   subtotal |-> b.subTotalOrder, total_extra_meals |-> b.totalExtraMeals,
   taxes |-> b.totalTaxes, delivery_fee |-> b.totalDeliveryFee,
   express_fee |-> b.totalExpressFee, promo_discount |-> b.totalPromoDiscount,
   total |-> b.totalOrder, available_credits |-> b.availableCredits,
   total_after_credits |-> b.totalOrderWithCreditsSubtracted]

\* price_breakdown is invoked: with explicit meals the pricing query is sent
\* at once, otherwise the upcoming days are fetched
PriceBreakdownInvoke ==
  /\ \E p \in PriceBreakdownParams, now \in InvocationTimes :
       LET date == DateOrDefault(p, getNextMonday(now)) IN
       IF HasExplicitMeals(p)
         THEN Begin("cookunity_get_price_breakdown", p,
                    [op |-> "getPriceBreakdown", date |-> date,
                     meals |-> MealsOfParams(p.meals)],
                    [date |-> date])
         ELSE Begin("cookunity_get_price_breakdown", p, [op |-> "getUpcomingDays"],
                    [date |-> date])
  /\ UNCHANGED <<vars, dateVars>>

\* price_breakdown: getUpcomingDays answered
PriceBreakdownDays ==
  /\ Awaiting("cookunity_get_price_breakdown", "getUpcomingDays")
  /\ \/ \E e \in ApiErrors : Catch(e)
     \/ \E days \in CartDays :
          LET DateIs(d) == d.date = local.date \/ d.displayDate = local.date
              i == FindIndex([k \in 1..Len(days) |-> DateIs(days[k])]) IN
          IF i = 0 \/ (i > 0 /\ CartEmpty(days[i]))
            THEN Return(ErrorResult("No meals in cart for " \o local.date
                   \o ". Add meals with cookunity_add_to_cart first, or pass meals directly to this tool."))
            ELSE CallApi([op |-> "getPriceBreakdown", date |-> local.date,
                          meals |-> MealsOfCart(days[i].cart)],
                         [date |-> local.date, day |-> days[i]])
  /\ UNCHANGED <<vars, dateVars>>

\* price_breakdown: getPriceBreakdown answered; the text is the JSON
\* rendering of the output object, kept here as its date
PriceBreakdownPriced ==
  /\ Awaiting("cookunity_get_price_breakdown", "getPriceBreakdown")
  /\ \/ \E e \in ApiErrors : Catch(e)
     \/ \E b \in PriceBreakdowns :
          Return(SuccessResult(local.date, PriceOutput(local.date, b)))
  /\ UNCHANGED <<vars, dateVars>>

\* Array.prototype.slice(start, end) for 0 <= start <= end
slice(items, start, end) ==
  SubSeq(items, start + 1, IF end < Len(items) THEN end ELSE Len(items))

PageInfo_inclusive(total, pagedLength, offset) ==
  LET hasMore == total >= offset + pagedLength
      info == [total |-> total, count |-> pagedLength, offset |-> offset,
               has_more |-> hasMore] IN
  IF hasMore THEN info @@ [next_offset |-> offset + pagedLength] ELSE info

\* the pagination fields of a list output:
\* { total, count, offset, has_more, ...(hasMore ? { next_offset } : {}) }
PageInfo(total, pagedLength, offset) ==
  LET hasMore == total > offset + pagedLength
      info == [total |-> total, count |-> pagedLength, offset |-> offset,
               has_more |-> hasMore] IN
  IF hasMore THEN info @@ [next_offset |-> offset + pagedLength] ELSE info

\* the largest small collection, offset and limit tried
MaxItems == 3
MaxOffset == 4
MaxLimit == 2

\* a full page size and the collection size and offsets that exercise it
DEFAULT_PAGE_SIZE == 20
ManyItems == 2 * DEFAULT_PAGE_SIZE + 5

\* offsets and limits that pass the schemas' min(0) and min(1)..max(50)
Offsets == 0..MaxOffset \cup {DEFAULT_PAGE_SIZE, 2 * DEFAULT_PAGE_SIZE}
Limits == 1..MaxLimit \cup {DEFAULT_PAGE_SIZE}

\* the validated inputs of cookunity_list_orders
ListOrdersParams ==
  [limit : Limits, offset : Offsets, response_format : {"markdown"}]

\* data.allOrders: { id, deliveryDate } records
AllOrders ==
  { [i \in 1..n |-> [id |-> i, deliveryDate |-> D1]] : n \in 0..MaxItems \cup {ManyItems} }

\* the "Use offset: N for more." line of a markdown list
MoreHint(info) ==
  IF info.has_more THEN " Use offset: " \o ToString(info.next_offset) \o " for more." ELSE ""

ListOrdersInvoke ==
  /\ \E p \in ListOrdersParams :
       Begin("cookunity_list_orders", p, [op |-> "getAllOrders"], NoLocals)
  /\ UNCHANGED <<vars, dateVars>>

\* list_orders: getAllOrders answered; the markdown text is kept as its
\* summary line and its more-hint, without the per-order lines
ListOrdersFetched ==
  /\ Awaiting("cookunity_list_orders", "getAllOrders")
  /\ \/ \E e \in ApiErrors : Catch(e)
     \/ \E allOrders \in AllOrders :
          LET total == Len(allOrders)
              paged == slice(allOrders, params.offset, params.offset + params.limit)
              info == PageInfo(total, Len(paged), params.offset) IN
          /\ reply' = SuccessResult(
                        ToString(total) \o " total orders (showing "
                          \o ToString(Len(paged)) \o ")" \o MoreHint(info),
                        info @@ [orders |-> paged])
          /\ at' = "returned"
          /\ local' = [allOrders |-> allOrders]
          /\ UNCHANGED <<tool, params, calls>>
  /\ UNCHANGED <<vars, dateVars>>

\* a JavaScript string value is modelled as the sequence of its characters,
\* so that case conversion and substring search are computed
UpperCase == <<"A","B","C","D","E","F","G","H","I","J","K","L","M",
               "N","O","P","Q","R","S","T","U","V","W","X","Y","Z">>
LowerCase == <<"a","b","c","d","e","f","g","h","i","j","k","l","m",
               "n","o","p","q","r","s","t","u","v","w","x","y","z">>

\* String.prototype.toLowerCase on these characters
toLowerCase(s) ==
  [i \in 1..Len(s) |->
     IF \E k \in 1..Len(UpperCase) : UpperCase[k] = s[i]
       THEN LowerCase[CHOOSE k \in 1..Len(UpperCase) : UpperCase[k] = s[i]]
       ELSE s[i]]

\* String.prototype.includes
includes(s, t) == \E i \in 0..(Len(s) - Len(t)) : SubSeq(s, i + 1, i + Len(t)) = t

\* tags.some((t) => t.toLowerCase().includes(term))
someIncludes(tags, term) == \E i \in 1..Len(tags) : includes(toLowerCase(tags[i]), term)

\* `${value}` of a field the upstream may leave null
TemplateText(obj, key) == IF key \in DOMAIN obj THEN obj[key] ELSE <<"n","u","l","l">>

\* the TypeError of reading a property of a null or undefined value
TypeError == [name |-> "TypeError", message |-> "Cannot read properties of null"]

\* the largest menu tried
MaxMeals == 2

\* meals as the menu query returns them; the third comes without its chef
\* relation, the last without its ingredients array
MealPool == {
  [id |-> "1", batchId |-> 1, name |-> <<"S", "a", "l", "m", "o", "n", " ", "B", "o", "w", "l">>,
   shortDescription |-> <<"G", "r", "i", "l", "l", "e", "d">>,
   image |-> "meal-1.jpg", price |-> 14, finalPrice |-> 12, stock |-> 5,
   isNewMeal |-> FALSE, userRating |-> 4, inventoryId |-> "ii-1",
   searchBy |-> [cuisines |-> <<<<"T", "h", "a", "i">>>>,
                 chefFirstName |-> <<"A", "n", "a">>,
                 chefLastName |-> <<"R", "u", "i", "z">>,
                 dietTags |-> <<<<"P", "e", "s", "c", "a", "t", "a", "r", "i", "a", "n">>>>,
                 ingredients |-> <<<<"r", "i", "c", "e">>>>,
                 proteinTags |-> <<<<"f", "i", "s", "h">>>>],
   nutritionalFacts |-> [calories |-> 500, fat |-> 20, carbs |-> 40, sodium |-> 700, fiber |-> 5],
   chef |-> [id |-> 1, firstName |-> <<"A", "n", "a">>, lastName |-> <<"R", "u", "i", "z">>],
   meatType |-> "", category |-> [id |-> 1, title |-> <<"B", "o", "w", "l", "s">>]],
  [id |-> "2", batchId |-> 2, name |-> <<"C", "u", "r", "r", "y">>,
   shortDescription |-> <<"S", "a", "l", "s", "a", " ", "V", "E", "R", "D", "E">>,
   image |-> "meal-2.jpg", price |-> 12, finalPrice |-> 10, stock |-> 0,
   isNewMeal |-> FALSE, userRating |-> 5, inventoryId |-> "ii-2",
   searchBy |-> [cuisines |-> <<<<"I", "n", "d", "i", "a", "n">>>>,
                 chefFirstName |-> <<"R", "a", "j">>,
                 chefLastName |-> <<"A", "n", "a", "n", "d">>,
                 dietTags |-> <<<<"V", "e", "g", "a", "n">>, <<"g", "l", "u", "t", "e", "n", "-", "f", "r", "e", "e">>>>,
                 ingredients |-> <<<<"t", "o", "f", "u">>>>,
                 proteinTags |-> <<>>],
   nutritionalFacts |-> [calories |-> 500, fat |-> 20, carbs |-> 40, sodium |-> 700, fiber |-> 5],
   chef |-> [id |-> 2, firstName |-> <<"R", "a", "j">>, lastName |-> <<"A", "n", "a", "n", "d">>],
   meatType |-> "", category |-> [id |-> 2, title |-> <<"V", "e", "g", "g", "i", "e">>]],
  [id |-> "3", batchId |-> 3, name |-> <<"B", "e", "e", "f", " ", "T", "a", "c", "o">>,
   shortDescription |-> <<"s", "m", "o", "k", "y">>,
   image |-> "meal-3.jpg", price |-> 17, finalPrice |-> 15, stock |-> 2,
   isNewMeal |-> FALSE, userRating |-> 3, inventoryId |-> "ii-3",
   searchBy |-> [cuisines |-> <<<<"M", "e", "x", "i", "c", "a", "n">>>>,
                 chefFirstName |-> <<"L", "i", "a">>,
                 chefLastName |-> <<"V", "e", "g", "a">>,
                 dietTags |-> <<>>,
                 ingredients |-> <<<<"c", "o", "r", "n">>, <<"R", "i", "c", "e">>>>,
                 proteinTags |-> <<<<"b", "e", "e", "f">>>>],
   nutritionalFacts |-> [calories |-> 500, fat |-> 20, carbs |-> 40, sodium |-> 700, fiber |-> 5],
   meatType |-> "", category |-> [id |-> 3, title |-> <<"P", "r", "o", "t", "e", "i", "n", "+">>]],
  [id |-> "4", batchId |-> 4, name |-> <<"P", "a", "s", "t", "a">>,
   shortDescription |-> <<"c", "r", "e", "a", "m", "y">>,
   image |-> "meal-4.jpg", price |-> 11, finalPrice |-> 9, stock |-> 1,
   isNewMeal |-> FALSE, userRating |-> 4, inventoryId |-> "ii-4",
   searchBy |-> [cuisines |-> <<<<"I", "t", "a", "l", "i", "a", "n">>>>,
                 chefFirstName |-> <<"U", "g", "o">>,
                 chefLastName |-> <<"N", "e", "r", "i">>,
                 dietTags |-> <<<<"v", "e", "g", "e", "t", "a", "r", "i", "a", "n">>>>,
                 proteinTags |-> <<<<"n", "o", "n", "e">>>>],
   nutritionalFacts |-> [calories |-> 500, fat |-> 20, carbs |-> 40, sodium |-> 700, fiber |-> 5],
   chef |-> [id |-> 4, firstName |-> <<"U", "g", "o">>, lastName |-> <<"N", "e", "r", "i">>],
   meatType |-> "", category |-> [id |-> 4, title |-> <<"B", "o", "w", "l", "s">>]] }

\* data.menu.meals
MenuMeals == UNION { [1..n -> MealPool] : n \in 0..MaxMeals }

\* data.menu.categories
MenuCategories ==
  << [id |-> 1, title |-> <<"B", "o", "w", "l", "s">>, label |-> "bowls"],
     [id |-> 2, title |-> <<"V", "e", "g", "g", "i", "e">>, label |-> "veggie"] >>

\* data.menu
Menus == { [categories |-> MenuCategories, meals |-> meals] : meals \in MenuMeals }

\* what the filter callback of searchMeals does for one meal: "yes" and "no"
\* are its return values, "throw" a TypeError on a missing field reached
\* before any field matched
MatchOutcome(meal, term) ==
  IF "name" \notin DOMAIN meal THEN "throw"
  ELSE IF includes(toLowerCase(meal.name), term) THEN "yes"
  ELSE IF "shortDescription" \notin DOMAIN meal THEN "throw"
  ELSE IF includes(toLowerCase(meal.shortDescription), term) THEN "yes"
  ELSE IF "searchBy" \notin DOMAIN meal THEN "throw"
  ELSE LET s == meal.searchBy IN
  IF "cuisines" \notin DOMAIN s THEN "throw"
  ELSE IF someIncludes(s.cuisines, term) THEN "yes"
  ELSE IF "dietTags" \notin DOMAIN s THEN "throw"
  ELSE IF someIncludes(s.dietTags, term) THEN "yes"
  ELSE IF "ingredients" \notin DOMAIN s THEN "throw"
  ELSE IF someIncludes(s.ingredients, term) THEN "yes"
  ELSE IF "proteinTags" \notin DOMAIN s THEN "throw"
  ELSE IF someIncludes(s.proteinTags, term) THEN "yes"
  ELSE IF includes(toLowerCase(TemplateText(s, "chefFirstName") \o <<" ">>
                                 \o TemplateText(s, "chefLastName")), term) THEN "yes"
  ELSE IF "category" \notin DOMAIN meal \/ "title" \notin DOMAIN meal.category THEN "throw"
  ELSE IF includes(toLowerCase(meal.category.title), term) THEN "yes"
  ELSE "no"

searchMeals_rawKeyword(meals, keyword) ==
  IF \E i \in 1..Len(meals) : MatchOutcome(meals[i], keyword) = "throw"
    THEN [ok |-> FALSE, error |-> TypeError]
    ELSE [ok |-> TRUE,
          meals |-> SelectSeq(meals, LAMBDA m : MatchOutcome(m, keyword) = "yes")]

\* CookUnityAPI.searchMeals on the meals of the fetched menu: the filtered
\* meals, or the TypeError the filter callback threw
searchMeals(meals, keyword) ==
  LET term == toLowerCase(keyword) IN
  IF \E i \in 1..Len(meals) : MatchOutcome(meals[i], term) = "throw"
    THEN [ok |-> FALSE, error |-> TypeError]
    ELSE [ok |-> TRUE,
          meals |-> SelectSeq(meals, LAMBDA m : MatchOutcome(m, term) = "yes")]

\* formatMeal reads a property of a missing chef, category or searchBy
formatMealThrows(meal) == {"chef", "category", "searchBy"} \ DOMAIN meal # {}

\* helpers.formatMeal for a meal with chef, category and searchBy; a tag
\* array the meal lacks is undefined in the result, which toStructured drops
formatMeal(meal) ==
  [id |-> meal.id, name |-> meal.name, description |-> meal.shortDescription,
   chef |-> TemplateText(meal.chef, "firstName") \o <<" ">>
              \o TemplateText(meal.chef, "lastName"),
   category |-> meal.category.title,
   price |-> meal.finalPrice, original_price |-> meal.price,
   rating |-> meal.userRating, inventory_id |-> meal.inventoryId,
   batch_id |-> meal.batchId, in_stock |-> meal.stock > 0, stock |-> meal.stock,
   is_new |-> meal.isNewMeal, image |-> meal.image,
   nutrition |-> meal.nutritionalFacts,
   tags |-> LET s == meal.searchBy
                renamed == [cuisines |-> "cuisines", dietTags |-> "diet_tags",
                            proteinTags |-> "protein_tags",
                            ingredients |-> "ingredients"]
            IN [k \in { renamed[f] : f \in DOMAIN renamed \cap DOMAIN s } |->
                  s[CHOOSE f \in DOMAIN renamed : renamed[f] = k]],
   meat_type |-> meal.meatType]

\* paged.map(formatMeal): the formatted meals, or the TypeError of the first
\* meal formatMeal cannot read
formatMeals(paged) ==
  IF \E i \in 1..Len(paged) : formatMealThrows(paged[i])
    THEN [ok |-> FALSE, error |-> TypeError]
    ELSE [ok |-> TRUE, meals |-> [i \in 1..Len(paged) |-> formatMeal(paged[i])]]

\* the filter inputs of cookunity_get_menu that pass GetMenuSchema
MenuFilters ==
  { [response_format |-> "markdown"],
    [response_format |-> "markdown", category |-> <<>>],
    [response_format |-> "markdown", category |-> <<"B", "O", "W", "L">>],
    [response_format |-> "markdown", diet |-> <<"v", "e", "g">>],
    [response_format |-> "markdown", max_price |-> 10],
    [response_format |-> "markdown", min_rating |-> 4, date |-> D1],
    [response_format |-> "markdown", category |-> <<"b", "o", "w", "l", "s">>, max_price |-> 0] }

\* the validated inputs of cookunity_get_menu
GetMenuParams ==
  { f @@ [limit |-> l, offset |-> o] : f \in MenuFilters, l \in Limits, o \in Offsets }

\* the four optional filters of get_menu, applied in the handler's order to
\* meals that carry category and searchBy.dietTags
FilterMeals(meals, p) ==
  LET byCategory ==
        IF "category" \in DOMAIN p /\ p.category # <<>>
          THEN SelectSeq(meals, LAMBDA m :
                 includes(toLowerCase(m.category.title), toLowerCase(p.category)))
          ELSE meals
      byDiet ==
        IF "diet" \in DOMAIN p /\ p.diet # <<>>
          THEN SelectSeq(byCategory, LAMBDA m :
                 someIncludes(m.searchBy.dietTags, toLowerCase(p.diet)))
          ELSE byCategory
      byPrice ==
        IF "max_price" \in DOMAIN p
          THEN SelectSeq(byDiet, LAMBDA m : m.finalPrice <= p.max_price)
          ELSE byDiet
  IN IF "min_rating" \in DOMAIN p
       THEN SelectSeq(byPrice, LAMBDA m : m.userRating >= p.min_rating)
       ELSE byPrice

\* the handler returns a page of formatted meals, or the error formatting threw
ReturnMeals(title, meals, extra, locals) ==
  LET paged == slice(meals, params.offset, params.offset + params.limit)
      formatted == formatMeals(paged)
      info == PageInfo(Len(meals), Len(paged), params.offset) IN
  IF ~formatted.ok
    THEN ReturnWith(handleError(formatted.error), Caught(locals, formatted.error))
    ELSE ReturnWith(SuccessResult(title \o MoreHint(info),
                                  extra @@ info @@ [meals |-> formatted.meals]),
                    locals)

GetMenuInvoke ==
  /\ \E p \in GetMenuParams, now \in InvocationTimes :
       LET date == DateOrDefault(p, getNextMonday(now)) IN
       Begin("cookunity_get_menu", p, [op |-> "getMenu", date |-> date], [date |-> date])
  /\ UNCHANGED <<vars, dateVars>>

\* get_menu: getMenu answered; the markdown text is kept as its summary line
\* and its more-hint, without the per-meal lines
GetMenuFetched ==
  /\ Awaiting("cookunity_get_menu", "getMenu")
  /\ \/ \E e \in ApiErrors : Catch(e)
     \/ \E menu \in Menus :
          LET meals == FilterMeals(menu.meals, params)
              shown == IF params.offset < Len(meals)
                         THEN IF Len(meals) - params.offset < params.limit
                                THEN Len(meals) - params.offset ELSE params.limit
                         ELSE 0 IN
          ReturnMeals("Showing " \o ToString(shown) \o " of " \o ToString(Len(meals))
                        \o " meals (offset " \o ToString(params.offset) \o ")",
                      meals,
                      [date |-> local.date,
                       categories |-> [i \in 1..Len(menu.categories) |->
                                         [id |-> menu.categories[i].id,
                                          title |-> menu.categories[i].title]]],
                      [date |-> local.date, menu |-> menu, meals |-> meals])
  /\ UNCHANGED <<vars, dateVars>>

\* keywords that pass SearchMealsSchema's min(1)
Queries ==
  { <<"s", "a", "l", "m", "o", "n">>, <<"V", "E", "G", "A", "N">>, <<"a", " ", "r">>, <<"r", "i", "c", "e">>, <<"f", "i", "s", "h">>, <<"t", "h", "a", "i">>, <<"b", "o", "w", "l", "s">>, <<"v", "e", "r", "d", "e">>, <<"z", "z", "z">> }

\* the validated inputs of cookunity_search_meals
SearchMealsParams ==
  [query : Queries, limit : Limits, offset : Offsets, response_format : {"markdown"}]
  \cup [query : {<<"s", "a", "l", "m", "o", "n">>}, date : {D2}, limit : {1}, offset : {0},
        response_format : {"markdown"}]

SearchMealsInvoke ==
  /\ \E p \in SearchMealsParams, now \in InvocationTimes :
       LET date == DateOrDefault(p, getNextMonday(now)) IN
       Begin("cookunity_search_meals", p,
             [op |-> "searchMeals", keyword |-> p.query, date |-> date], [date |-> date])
  /\ UNCHANGED <<vars, dateVars>>

\* search_meals: api.searchMeals fetched the menu and filtered it, or failed
SearchMealsFetched ==
  /\ Awaiting("cookunity_search_meals", "searchMeals")
  /\ \/ \E e \in ApiErrors : Catch(e)
     \/ \E menu \in Menus :
          LET results == searchMeals(menu.meals, params.query) IN
          IF ~results.ok
            THEN ReturnWith(handleError(results.error),
                            Caught([date |-> local.date, menu |-> menu], results.error))
            ELSE ReturnMeals("Found " \o ToString(Len(results.meals)) \o " meals",
                             results.meals,
                             [query |-> params.query, date |-> local.date],
                             [date |-> local.date, menu |-> menu,
                              results |-> results.meals])
  /\ UNCHANGED <<vars, dateVars>>

\* the validated inputs of cookunity_order_history
OrderHistoryParams ==
  [from : {"2026-01-01"}, to : {"2026-01-31"}, limit : Limits, offset : Offsets,
   response_format : {"json"}]

\* parseInt(s, 10) || null for the calories strings of the invoices below
CaloriesOrNull(s) == CASE s = "450" -> 450 [] s = "0" -> NULL [] s = "" -> NULL

\* String.prototype.trim of a "first last" chef name with possibly empty parts
TrimmedName(first, last) ==
  IF first = "" THEN last ELSE IF last = "" THEN first ELSE first \o " " \o last

\* one invoice as the invoices query returns it
Invoice(i) ==
  [id |-> i, date |-> "2026-01-05", subtotal |-> 8394, deliveryFee |-> 999,
   expressFee |-> 0, taxes |-> 745, tip |-> i, discount |-> 0, chargedCredit |-> 0,
   total |-> 10138 + i, ccNumber |-> "4242",
   orders |-> << [id |-> 100 + i, delivery_date |-> "2026-01-05",
                  display_date |-> "Jan 5", time_start |-> "11:00", time_end |-> "20:00",
                  items |-> << [qty |-> 1 + (i % 2),
                                price |-> [price |-> 1399, originalPrice |-> 1499,
                                           priceIncludingTax |-> 1520],
                                product |-> [name |-> "Salmon Bowl",
                                             short_description |-> "Grilled",
                                             chef_firstname |-> "Ana",
                                             chef_lastname |-> IF i % 2 = 0 THEN "" ELSE "Ruiz",
                                             calories |-> IF i % 2 = 0 THEN "" ELSE "450",
                                             meat_type |-> "fish",
                                             user_rating |-> 4]] >>] >>]

\* the invoices the account has in the requested date range
InvoicesInRange == { [i \in 1..n |-> Invoice(i)] : n \in 0..MaxItems \cup {ManyItems} }

\* the handler's formatting of one invoice
FormatInvoice(inv) ==
  [id |-> inv.id, date |-> inv.date, subtotal |-> inv.subtotal,
   delivery_fee |-> inv.deliveryFee, express_fee |-> inv.expressFee,
   taxes |-> inv.taxes, tip |-> inv.tip, discount |-> inv.discount,
   credit_applied |-> inv.chargedCredit, total |-> inv.total, payment |-> inv.ccNumber,
   orders |-> [o \in 1..Len(inv.orders) |->
     LET order == inv.orders[o] IN
     [delivery_date |-> order.delivery_date, display_date |-> order.display_date,
      delivery_window |-> order.time_start \o " - " \o order.time_end,
      items |-> [k \in 1..Len(order.items) |->
        LET item == order.items[k] IN
        [name |-> item.product.name, description |-> item.product.short_description,
         chef |-> TrimmedName(item.product.chef_firstname, item.product.chef_lastname),
         price |-> item.price.price, price_incl_tax |-> item.price.priceIncludingTax,
         original_price |-> item.price.originalPrice,
         calories |-> CaloriesOrNull(item.product.calories),
         meat_type |-> item.product.meat_type, quantity |-> item.qty,
         rating |-> item.product.user_rating,
         review |-> IF "review" \in DOMAIN item.product
                      THEN [rating |-> item.product.review.rating,
                            text |-> item.product.review.review]
                      ELSE NULL]]]]]

\* order_history is invoked and sends getInvoices with the caller's offset
\* and limit as query variables
OrderHistoryInvoke ==
  /\ \E p \in OrderHistoryParams :
       Begin("cookunity_order_history", p,
             [op |-> "getInvoices", from |-> p.from, to |-> p.to,
              offset |-> p.offset, limit |-> p.limit],
             NoLocals)
  /\ UNCHANGED <<vars, dateVars>>

\* order_history: getInvoices answered with the invoices the upstream
\* selected for the offset and limit it was sent
OrderHistoryFetched ==
  /\ Awaiting("cookunity_order_history", "getInvoices")
  /\ \/ \E e \in ApiErrors : Catch(e)
     \/ \E inRange \in InvoicesInRange :
          LET invoices == slice(inRange, calls[1].offset, calls[1].offset + calls[1].limit)
              total == Len(invoices)
              formatted == [i \in 1..Len(invoices) |-> FormatInvoice(invoices[i])] IN
          /\ reply' = SuccessResult(
                        "json",
                        [total |-> total, offset |-> params.offset, invoices |-> formatted])
          /\ at' = "returned"
          /\ local' = [inRange |-> inRange, invoices |-> invoices]
          /\ UNCHANGED <<tool, params, calls>>
  /\ UNCHANGED <<vars, dateVars>>

\* obj.key ?? default, an absent key standing for null or undefined
Get(obj, key, default) == IF key \in DOMAIN obj THEN obj[key] ELSE default

\* the truthiness of a boolean field
Flag(obj, key) == key \in DOMAIN obj /\ obj[key]

\* obj with the field key set to value when the source has the field
WithField(obj, key, source, field) ==
  IF field \in DOMAIN source THEN obj @@ (key :> source[field]) ELSE obj

\* items.reduce((sum, i) => sum + (i[key] || 0), 0)
RECURSIVE SumOf(_, _)
SumOf(items, key) ==
  IF items = <<>> THEN 0
  ELSE Get(items[Len(items)], key, 0) + SumOf(SubSeq(items, 1, Len(items) - 1), key)

DeliveryStatus_skipFirst(day) ==
  IF Flag(day, "skip") THEN "skipped"
  ELSE IF ~Flag(day, "canEdit") THEN "locked"
  ELSE IF Flag(day, "isPaused") THEN "paused"
  ELSE "active"

\* the status formatDelivery derives from canEdit, skip and isPaused
DeliveryStatus(day) ==
  IF ~Flag(day, "canEdit") THEN "locked"
  ELSE IF Flag(day, "skip") THEN "skipped"
  ELSE IF Flag(day, "isPaused") THEN "paused"
  ELSE "active"

\* a cart or order line as formatDelivery lists it; price is the cart line's
\* product.price_incl_tax or the order line's price.price
FormatLine(line, price) ==
  LET product == Get(line, "product", <<>>) IN
  WithField([name |-> Get(product, "name", "Unknown"),
             inventory_id |-> Get(product, "inventoryId", ""),
             price |-> price,
             chef |-> TrimmedName(Get(product, "chef_firstname", ""),
                                  Get(product, "chef_lastname", ""))],
            "quantity", line, "qty")

RecommendationQuantity_zero(m) == Get(m, "qty", 0)

\* m.qty ?? 1
RecommendationQuantity(m) == Get(m, "qty", 1)

\* helpers.formatDelivery
formatDelivery(day) ==
  LET cart == Get(day, "cart", <<>>)
      cartItems ==
        [i \in 1..Len(cart) |->
           FormatLine(cart[i], Get(Get(cart[i], "product", <<>>), "price_incl_tax", 0))]
      orderInfo ==
        IF "order" \in DOMAIN day /\ "items" \in DOMAIN day.order /\ Len(day.order.items) > 0
          THEN [id |-> day.order.id,
                status |-> Get(Get(day.order, "orderStatus", <<>>), "status", NULL),
                grand_total |-> Get(day.order, "grandTotal", 0),
                items |-> [i \in 1..Len(day.order.items) |->
                             FormatLine(day.order.items[i],
                                        Get(Get(day.order.items[i], "price", <<>>), "price", 0))],
                item_count |-> SumOf(day.order.items, "qty")]
          ELSE NULL
      recMeals == Get(Get(day, "recommendation", <<>>), "meals", <<>>)
      recommendationItems ==
        [i \in 1..Len(recMeals) |->
           [name |-> Get(recMeals[i], "name", "Unknown"),
            inventory_id |-> Get(recMeals[i], "inventoryId", ""),
            quantity |-> RecommendationQuantity(recMeals[i]),
            price |-> 0,
            chef |-> TrimmedName(Get(recMeals[i], "chef_firstname", ""),
                                 Get(recMeals[i], "chef_lastname", ""))]]
  IN [date |-> day.displayDate,
      status |-> DeliveryStatus(day),
      can_edit |-> day.canEdit,
      menu_available |-> day.menuAvailable,
      cutoff |-> Get(Get(day, "cutoff", <<>>), "time", NULL),
      cutoff_timezone |-> Get(Get(day, "cutoff", <<>>), "userTimeZone", NULL),
      cart_items |-> cartItems,
      cart_count |-> SumOf(cartItems, "quantity"),
      order |-> orderInfo,
      recommendation_items |-> recommendationItems,
      recommendation_count |-> SumOf(recommendationItems, "quantity")]

\* the carts, orders and recommendations an upcoming day can come with:
\* missing, empty, and with lines that have or lack a quantity or a product
DayCarts ==
  { <<>>,
    [cart |-> <<>>],
    [cart |-> << [qty |-> 2, product |-> [id |-> 11, inventoryId |-> "ii-1",
                                           name |-> "Salmon Bowl", price_incl_tax |-> 1399,
                                           chef_firstname |-> "Ana",
                                           chef_lastname |-> "Ruiz"]],
                 [product |-> [id |-> 12, inventoryId |-> "ii-2", name |-> "Curry"]],
                 [qty |-> 1] >>] }

DayOrders ==
  { <<>>,
    [order |-> [id |-> "o-1"]],
    [order |-> [id |-> "o-1", items |-> <<>>]],
    [order |-> [id |-> "o-1", grandTotal |-> 4197, orderStatus |-> [status |-> "PAID"],
                items |-> << [qty |-> 3, price |-> [price |-> 1399],
                              product |-> [inventoryId |-> "ii-1", name |-> "Salmon Bowl",
                                           chef_firstname |-> "Ana"]],
                             [product |-> [inventoryId |-> "ii-2"]] >>]] }

DayRecommendations ==
  { <<>>,
    [recommendation |-> <<>>],
    [recommendation |-> [meals |-> << [name |-> "Curry", inventoryId |-> "ii-2"],
                                      [name |-> "Pasta", inventoryId |-> "ii-4", qty |-> 2],
                                      [inventoryId |-> "ii-3", qty |-> 0] >>]] }

\* an upcoming day: every combination of the three status flags with every
\* cart, order and recommendation above
DeliveryDay(date, scheduled) ==
  { [date |-> date, displayDate |-> date, scheduled |-> scheduled,
     menuAvailable |-> TRUE, cutoff |-> [time |-> "2026-02-18T12:00:00", userTimeZone |-> "EST"],
     canEdit |-> canEdit, skip |-> skip, isPaused |-> isPaused] @@ c @@ o @@ r :
      canEdit \in BOOLEAN, skip \in BOOLEAN, isPaused \in BOOLEAN,
      c \in DayCarts, o \in DayOrders, r \in DayRecommendations }

\* upcomingDays responses as list_deliveries reads them: no day, one
\* scheduled day, and an unscheduled day followed by a scheduled one
DeliveryDays ==
  { <<>> }
  \cup { <<d>> : d \in DeliveryDay(D1, TRUE) }
  \cup { << [date |-> D1, displayDate |-> D1, scheduled |-> FALSE, menuAvailable |-> FALSE,
             canEdit |-> FALSE, skip |-> TRUE, isPaused |-> FALSE], d >> :
           d \in { x \in DeliveryDay(D2, TRUE) : x.canEdit /\ ~x.skip /\ "cart" \in DOMAIN x } }

ListDeliveriesInvoke ==
  /\ Begin("cookunity_list_deliveries", [response_format |-> "json"],
           [op |-> "getUpcomingDays"], NoLocals)
  /\ UNCHANGED <<vars, dateVars>>

\* list_deliveries: getUpcomingDays answered; the text is the JSON rendering
\* of the output object, kept here as its format
ListDeliveriesFetched ==
  /\ Awaiting("cookunity_list_deliveries", "getUpcomingDays")
  /\ \/ \E e \in ApiErrors : Catch(e)
     \/ \E days \in DeliveryDays :
          LET scheduledDays == SelectSeq(days, LAMBDA d : Flag(d, "scheduled"))
              deliveries == [i \in 1..Len(scheduledDays) |-> formatDelivery(scheduledDays[i])] IN
          /\ reply' = SuccessResult("json",
                                    [total |-> Len(deliveries), deliveries |-> deliveries])
          /\ at' = "returned"
          /\ local' = [days |-> days, scheduledDays |-> scheduledDays]
          /\ UNCHANGED <<tool, params, calls>>
  /\ UNCHANGED <<vars, dateVars>>

\* a date that passes DateSchema and is no upcoming day
D3 == "2026-03-09"

\* the validated inputs of cookunity_skip_delivery and cookunity_unskip_delivery
SkipParams == { [date |-> d] : d \in Dates \cup {D3} }

\* data.createSkip and data.createUnskip
SkipResults ==
  { [__typename |-> "Skip", id |-> "s-1"],
    [__typename |-> "OrderCreationError", error |-> "Past cutoff"],
    [__typename |-> "OrderCreationError"] }

\* days.map((d) => d.date)
validDates(days) == [i \in 1..Len(days) |-> days[i].date]

includesDate_displayDate(days, date) ==
  \E i \in 1..Len(days) : days[i].date = date \/ days[i].displayDate = date

\* validDates.includes(params.date)
includesDate(days, date) == \E i \in 1..Len(days) : validDates(days)[i] = date

\* skip_delivery and unskip_delivery are invoked: the upcoming days are fetched
SkipInvoke(name) ==
  \E p \in SkipParams : Begin(name, p, [op |-> "getUpcomingDays"], NoLocals)

\* getUpcomingDays answered: the date is validated against the days' dates
\* and the mutation is sent
SkipValidate(name, mutation) ==
  /\ Awaiting(name, "getUpcomingDays")
  /\ \/ \E e \in ApiErrors : Catch(e)
     \/ \E days \in CartDays :
          IF ~includesDate(days, params.date)
            THEN ReturnWith(
                   ErrorResult("Error: \"" \o params.date
                     \o "\" is not a valid delivery date. Available dates: "
                     \o Join(validDates(days), ", ")
                     \o ". Use cookunity_list_deliveries to see your delivery calendar."),
                   [days |-> days])
            ELSE CallApi([op |-> mutation, date |-> params.date], [days |-> days])

\* the mutation answered: an OrderCreationError result is an error result
SkipAnswered(name, mutation, failed, hint, success) ==
  /\ Awaiting(name, mutation)
  /\ \/ \E e \in ApiErrors : Catch(e)
     \/ \E result \in SkipResults :
          IF result.__typename = "OrderCreationError"
            THEN ReturnWith(ErrorResult("Error: " \o Get(result, "error", failed) \o hint),
                            local @@ [result |-> result])
            ELSE ReturnWith(SuccessResult(success, 
                              WithField([success |-> TRUE, date |-> params.date,
                                         message |-> success],
                                        "skip_id", IF name = "cookunity_skip_delivery"
                                                     THEN result ELSE <<>>, "id")),
                            local @@ [result |-> result])

SkipDeliveryInvoke == SkipInvoke("cookunity_skip_delivery") /\ UNCHANGED <<vars, dateVars>>

SkipDeliveryValidate ==
  SkipValidate("cookunity_skip_delivery", "skipDelivery") /\ UNCHANGED <<vars, dateVars>>

SkipDeliveryAnswered ==
  /\ SkipAnswered("cookunity_skip_delivery", "skipDelivery", "Failed to skip delivery",
                  ". Check cutoff with cookunity_list_deliveries.",
                  "Delivery for " \o params.date \o " has been skipped.")
  /\ UNCHANGED <<vars, dateVars>>

UnskipDeliveryInvoke == SkipInvoke("cookunity_unskip_delivery") /\ UNCHANGED <<vars, dateVars>>

UnskipDeliveryValidate ==
  SkipValidate("cookunity_unskip_delivery", "unskipDelivery") /\ UNCHANGED <<vars, dateVars>>

UnskipDeliveryAnswered ==
  /\ SkipAnswered("cookunity_unskip_delivery", "unskipDelivery",
                  "Failed to unskip delivery", ".",
                  "Delivery for " \o params.date \o " has been unskipped.")
  /\ UNCHANGED <<vars, dateVars>>

\* transport.handleRequest is done with a request: the handler's result was
\* sent and nothing of the invocation is kept
RequestHandled ==
  /\ at = "returned"
  /\ tool' = "none" /\ params' = NoParams /\ at' = "idle"
  /\ local' = NoLocals /\ calls' = <<>> /\ reply' = NoReply
  /\ UNCHANGED <<vars, dateVars>>

ToolNext ==
  \/ ConfirmOrderInvoke
  \/ ConfirmOrderDays
  \/ ConfirmOrderProfile
  \/ ConfirmOrderCreated
  \/ PriceBreakdownInvoke
  \/ PriceBreakdownDays
  \/ PriceBreakdownPriced
  \/ ListOrdersInvoke
  \/ ListOrdersFetched
  \/ GetMenuInvoke
  \/ GetMenuFetched
  \/ SearchMealsInvoke
  \/ SearchMealsFetched
  \/ OrderHistoryInvoke
  \/ OrderHistoryFetched
  \/ ListDeliveriesInvoke
  \/ ListDeliveriesFetched
  \/ SkipDeliveryInvoke
  \/ SkipDeliveryValidate
  \/ SkipDeliveryAnswered
  \/ UnskipDeliveryInvoke
  \/ UnskipDeliveryValidate
  \/ UnskipDeliveryAnswered
  \/ RequestHandled

ToolSpec == Init /\ [][ToolNext]_allVars

\* getNextMonday is evaluated at some instant in some time zone
GetNextMonday ==
  /\ \E t \in Todays :
       /\ today' = t
       /\ defaultDate' = getNextMonday(t)
  /\ UNCHANGED <<vars, toolVars>>

DateNext == GetNextMonday

DateSpec == Init /\ [][DateNext]_allVars


\* confirm_order returned its empty-cart precondition error
EmptyCartReply ==
  /\ tool = "cookunity_confirm_order" /\ at = "returned"
  /\ reply = [text |-> "Cart is empty for " \o params.date
                         \o ". Add meals first with cookunity_add_to_cart.",
              isError |-> TRUE]

\* C13 as stated: confirming with an empty or missing cart fails before any
\* network call, the invocation having made zero upstream requests
C13_NoRequestOnEmptyCart == EmptyCartReply => Len(calls) = 0

\* C13 amended: confirming with an empty or missing cart fails right after
\* the upcoming-days fetch, which is the invocation's only api call; the
\* handler goes on to the profile lookup and createOrder only with a
\* non-empty cart
C13_OnlyDaysFetchedOnEmptyCart ==
  tool = "cookunity_confirm_order" =>
    /\ EmptyCartReply => calls = << [op |-> "getUpcomingDays"] >>
    /\ Len(calls) > 1 => ("cart" \in DOMAIN local.day /\ Len(local.day.cart) > 0)

\* C13 witness: the empty-cart error was returned
C13_Witness == EmptyCartReply


\* confirm_order is past its profile lookup
ProfileLookedUp == tool = "cookunity_confirm_order" /\ "profile" \in DOMAIN local

\* the profile lookup succeeded and the profile has a delivery day
HasDeliveryDay(p) ==
  p.ok /\ "deliveryDays" \in DOMAIN p.userInfo /\ p.userInfo.deliveryDays # <<>>

NoMealsReply ==
  /\ tool = "cookunity_get_price_breakdown" /\ at = "returned"
  /\ "isError" \in DOMAIN reply
  /\ reply.text = "No meals in cart for " \o local.date
       \o ". Add meals with cookunity_add_to_cart first, or pass meals directly to this tool."

\* the invocation carries a meal list with at least one meal
MealsSupplied == "meals" \in DOMAIN params /\ params.meals # <<>>

\* the meals priced by price_breakdown come from the right source: the
\* explicit list when one is given and non-empty, with no cart fetch, and
\* otherwise the cart lines of the day found for the date
PricedMealsSource ==
  (tool = "cookunity_get_price_breakdown" /\ at # "idle") =>
    IF MealsSupplied
      THEN /\ Len(calls) = 1
           /\ calls[1] = [op |-> "getPriceBreakdown", date |-> local.date,
                          meals |-> params.meals]
      ELSE /\ calls[1].op = "getUpcomingDays"
           /\ Len(calls) <= 2
           /\ Len(calls) = 2 =>
                /\ local.date \in {local.day.date, local.day.displayDate}
                /\ calls[2].op = "getPriceBreakdown" /\ calls[2].date = local.date
                /\ Len(calls[2].meals) = Len(local.day.cart)
                /\ Len(local.day.cart) > 0
                /\ \A i \in 1..Len(local.day.cart) :
                     /\ calls[2].meals[i].entityId = local.day.cart[i].product.id
                     /\ calls[2].meals[i].quantity = local.day.cart[i].qty
                     /\ calls[2].meals[i].inventoryId
                          = local.day.cart[i].product.inventoryId

\* C15 as stated: price_breakdown prices the explicit meals when given and
\* the cart lines of the date otherwise, and when there are no explicit
\* meals and no cart for the date it fails its precondition without having
\* made any network call
C15_NoCallOnMissingCart ==
  /\ PricedMealsSource
  /\ NoMealsReply => Len(calls) = 0

\* C15: price_breakdown prices the explicit meals when given and non-empty
\* (the cart is not fetched) and the cart lines of the date otherwise; when
\* there are no explicit meals and the date has no day, no cart or an empty
\* cart, it fails its precondition after the upcoming-days fetch, its only
\* call: the pricing query is never sent
C15_PricingNotSentOnMissingCart ==
  /\ PricedMealsSource
  /\ NoMealsReply => (~MealsSupplied /\ calls = << [op |-> "getUpcomingDays"] >>)

\* C15 witness: an empty explicit list fell back to the cart, which had no
\* day for the date, and the precondition failure was returned
C15_Witness == NoMealsReply /\ "meals" \in DOMAIN params

\* C15 witness of the cart path: the pricing query was sent with cart lines
C15_CartPriced ==
  /\ tool = "cookunity_get_price_breakdown" /\ Len(calls) = 2


\* a paginated handler returned a list output
ListReturned(name) ==
  tool = name /\ at = "returned" /\ "structuredContent" \in DOMAIN reply

\* the number of items of a collection of n items that lie in [offset, offset+limit)
InWindow(n, offset, limit) == Cardinality({ i \in 1..n : offset < i /\ i <= offset + limit })

\* the pagination fields of the output out describe the window
\* [offset, offset+limit) of a collection of n items
PageFields(out, n, offset, limit) ==
  /\ out.total = n
  /\ out.offset = offset
  /\ out.count = InWindow(n, offset, limit)
  /\ out.has_more = (n > offset + out.count)
  /\ ("next_offset" \in DOMAIN out) = out.has_more
  /\ out.has_more => out.next_offset = offset + out.count

\* C16: in the outputs of list_orders, get_menu and search_meals, total is
\* the length of the full (filtered) collection, the page is its contiguous
\* slice [offset, offset+limit), count is the page length, has_more is true
\* exactly when total > offset + count, and next_offset is present exactly
\* when has_more is true and then equals offset + count
C16_Pagination ==
  /\ ListReturned("cookunity_list_orders") =>
       LET out == reply.structuredContent IN
       /\ PageFields(out, Len(local.allOrders), params.offset, params.limit)
       /\ Len(out.orders) = out.count
       /\ \A i \in 1..out.count : out.orders[i] = local.allOrders[params.offset + i]
  /\ ListReturned("cookunity_get_menu") =>
       LET out == reply.structuredContent IN
       /\ PageFields(out, Len(local.meals), params.offset, params.limit)
       /\ Len(out.meals) = out.count
       /\ \A i \in 1..out.count : out.meals[i].id = local.meals[params.offset + i].id
  /\ ListReturned("cookunity_search_meals") =>
       LET out == reply.structuredContent IN
       /\ PageFields(out, Len(local.results), params.offset, params.limit)
       /\ Len(out.meals) = out.count
       /\ \A i \in 1..out.count : out.meals[i].id = local.results[params.offset + i].id

\* C16 witness: 45 orders, limit 20, offset 20: count 20, has_more and
\* next_offset 40
C16_Witness ==
  /\ ListReturned("cookunity_list_orders")
  /\ Len(local.allOrders) = 45 /\ params.limit = 20 /\ params.offset = 20
  /\ reply.structuredContent.count = 20
  /\ reply.structuredContent.has_more
  /\ reply.structuredContent.next_offset = 40

\* the last page of the same list: offset 40 gives count 5, no has_more and
\* no next_offset key
C16_LastPage ==
  /\ ListReturned("cookunity_list_orders")
  /\ Len(local.allOrders) = 45 /\ params.limit = 20 /\ params.offset = 40
  /\ reply.structuredContent.count = 5
  /\ ~reply.structuredContent.has_more
  /\ "next_offset" \notin DOMAIN reply.structuredContent

\* a menu page counted against the filtered collection: a meal was filtered
\* out and total is the number of meals left
C16_FilteredMenuPage ==
  /\ ListReturned("cookunity_get_menu")
  /\ Len(local.meals) < Len(local.menu.meals)
  /\ reply.structuredContent.total = 1 /\ reply.structuredContent.count = 1


\* C17 as stated: the order_history output is paginated like the other
\* lists: total is the number of invoices in the date range, the page is
\* the offset/limit slice of them, and has_more and next_offset follow the
\* same rule
C17_InvoicesPaginatedLocally ==
  ListReturned("cookunity_order_history") =>
    LET out == reply.structuredContent
        n == Len(local.inRange)
        count == Len(out.invoices) IN
    /\ out.total = n
    /\ count = InWindow(n, params.offset, params.limit)
    /\ \A i \in 1..count : out.invoices[i].id = local.inRange[params.offset + i].id
    /\ "has_more" \in DOMAIN out
    /\ out.has_more = (n > params.offset + count)
    /\ ("next_offset" \in DOMAIN out) = out.has_more
    /\ out.has_more => out.next_offset = params.offset + count

\* what order_history does report: the page the upstream selected, its
\* length as total, the offset, and neither has_more nor next_offset
C17_TotalIsPageLength ==
  ListReturned("cookunity_order_history") =>
    LET out == reply.structuredContent IN
    /\ DOMAIN out = {"total", "offset", "invoices"}
    /\ out.total = Len(out.invoices)
    /\ out.total <= params.limit
    /\ calls = << [op |-> "getInvoices", from |-> params.from, to |-> params.to,
                   offset |-> params.offset, limit |-> params.limit] >>

\* three invoices in range and a limit of 2: total is reported as 2
C17_ShortTotal ==
  /\ ListReturned("cookunity_order_history")
  /\ Len(local.inRange) = 3 /\ params.limit = 2 /\ params.offset = 0
  /\ reply.structuredContent.total = 2


\* list_deliveries returned the deliveries of the scheduled days
DeliveriesReturned == ListReturned("cookunity_list_deliveries")

\* C18: formatDelivery derives status from (canEdit, skip, isPaused) with
\* strict precedence: canEdit = false gives locked whatever skip and
\* isPaused are; canEdit and skip give skipped whatever isPaused is; canEdit,
\* not skip and isPaused give paused; canEdit alone gives active
C18_StatusPrecedence ==
  DeliveriesReturned =>
    \A i \in 1..Len(local.scheduledDays) :
      LET day == local.scheduledDays[i]
          status == reply.structuredContent.deliveries[i].status IN
      /\ ~day.canEdit => status = "locked"
      /\ (day.canEdit /\ day.skip) => status = "skipped"
      /\ (day.canEdit /\ ~day.skip /\ day.isPaused) => status = "paused"
      /\ (day.canEdit /\ ~day.skip /\ ~day.isPaused) => status = "active"

\* C18 witness: an editable day that is both skipped and paused was
\* formatted as skipped
C18_Witness ==
  /\ DeliveriesReturned /\ Len(local.scheduledDays) = 1
  /\ local.scheduledDays[1].canEdit /\ local.scheduledDays[1].skip
  /\ local.scheduledDays[1].isPaused
  /\ reply.structuredContent.deliveries[1].status = "skipped"

\* a locked day that is also skipped and paused was formatted as locked
C18_LockedWins ==
  /\ DeliveriesReturned /\ Len(local.scheduledDays) = 1
  /\ ~local.scheduledDays[1].canEdit /\ local.scheduledDays[1].skip
  /\ local.scheduledDays[1].isPaused
  /\ reply.structuredContent.deliveries[1].status = "locked"

\* the quantities of upstream lines added up from the first line on, a line
\* without qty counting as missing
RECURSIVE QuantityTotal(_, _)
QuantityTotal(lines, missing) ==
  IF lines = <<>> THEN 0
  ELSE (IF "qty" \in DOMAIN Head(lines) THEN Head(lines).qty ELSE missing)
         + QuantityTotal(Tail(lines), missing)

\* C19: cart_count, recommendation_count and the order's item_count are the
\* sums of the quantities of the day's cart lines, recommendation lines and
\* order lines, a missing quantity counting 0 in cart and order lines and 1
\* in recommendation lines; a missing cart or recommendation gives count 0
C19_Counts ==
  DeliveriesReturned =>
    \A i \in 1..Len(local.scheduledDays) :
      LET day == local.scheduledDays[i]
          out == reply.structuredContent.deliveries[i] IN
      /\ out.cart_count
           = (IF "cart" \in DOMAIN day THEN QuantityTotal(day.cart, 0) ELSE 0)
      /\ out.recommendation_count
           = (IF "recommendation" \in DOMAIN day /\ "meals" \in DOMAIN day.recommendation
                THEN QuantityTotal(day.recommendation.meals, 1) ELSE 0)
      /\ out.order # NULL => out.order.item_count = QuantityTotal(day.order.items, 0)
      /\ ("order" \in DOMAIN day /\ "items" \in DOMAIN day.order /\ day.order.items # <<>>)
           => out.order # NULL

\* C19 witness: a day whose cart, order and recommendation each have a line
\* without quantity was counted: 3 in the cart, 3 in the order, 3 recommended
C19_Witness ==
  /\ DeliveriesReturned /\ Len(local.scheduledDays) = 1
  /\ LET day == local.scheduledDays[1]
         out == reply.structuredContent.deliveries[1] IN
     /\ "cart" \in DOMAIN day /\ \E k \in 1..Len(day.cart) : "qty" \notin DOMAIN day.cart[k]
     /\ out.order # NULL
     /\ "recommendation" \in DOMAIN day /\ "meals" \in DOMAIN day.recommendation
     /\ out.cart_count = 3 /\ out.order.item_count = 3 /\ out.recommendation_count = 3

\* a day without cart and without recommendation was counted 0 and 0
C19_MissingCounted ==
  /\ DeliveriesReturned /\ Len(local.scheduledDays) = 1
  /\ {"cart", "recommendation"} \cap DOMAIN local.scheduledDays[1] = {}
  /\ reply.structuredContent.deliveries[1].cart_count = 0
  /\ reply.structuredContent.deliveries[1].recommendation_count = 0


\* api.searchMeals returned its result to the search_meals handler
SearchReturned ==
  tool = "cookunity_search_meals" /\ at = "returned" /\ "results" \in DOMAIN local

\* two characters are the same letter in either case, or the same character
SameLetter(a, b) ==
  \/ a = b
  \/ \E k \in 1..Len(UpperCase) : {a, b} = {UpperCase[k], LowerCase[k]}

\* keyword occurs in text at some position, case ignored
Occurs(keyword, text) ==
  \E i \in 0..(Len(text) - Len(keyword)) :
    \A j \in 1..Len(keyword) : SameLetter(text[i + j], keyword[j])

\* the texts of a meal that the search looks at
SearchedTexts(meal) ==
  LET s == meal.searchBy
      tagsOf(key) == IF key \in DOMAIN s THEN { s[key][i] : i \in 1..Len(s[key]) } ELSE {} IN
  {meal.name, meal.shortDescription, meal.category.title,
   s.chefFirstName \o <<" ">> \o s.chefLastName}
  \cup tagsOf("cuisines") \cup tagsOf("dietTags")
  \cup tagsOf("ingredients") \cup tagsOf("proteinTags")

\* the meal matches the keyword in at least one of its searched texts
Matches(meal, keyword) == \E text \in SearchedTexts(meal) : Occurs(keyword, text)

\* the matching meals of a menu, taken one by one from its front
RECURSIVE MatchingMeals(_, _)
MatchingMeals(meals, keyword) ==
  IF meals = <<>> THEN <<>>
  ELSE (IF Matches(Head(meals), keyword) THEN <<Head(meals)>> ELSE <<>>)
         \o MatchingMeals(Tail(meals), keyword)

\* C20: what searchMeals returns is exactly the meals of the fetched menu in
\* which the keyword occurs, case ignored, in the name, the short
\* description, a cuisine tag, a diet tag, an ingredient, a protein tag, the
\* chef's "first last" name or the category title, in the menu's order and
\* each as often as the menu has it
C20_SearchKeepsMatchingMeals ==
  SearchReturned => local.results = MatchingMeals(local.menu.meals, params.query)

\* C20 witness: of two meals the search kept the second alone, for an
\* upper-case keyword found in its diet tag only
C20_Witness ==
  /\ SearchReturned /\ params.query = <<"V","E","G","A","N">>
  /\ Len(local.menu.meals) = 2
  /\ local.results = << local.menu.meals[2] >>
  /\ local.menu.meals[1] # local.menu.meals[2]

\* a keyword that spans the chef's first and last name kept that meal
C20_ChefNameSpansBoth ==
  /\ SearchReturned /\ params.query = <<"a"," ","r">>
  /\ Len(local.results) = 1 /\ Len(local.menu.meals) = 2

\* two different matching meals were kept in the menu's order
C20_OrderKept ==
  /\ SearchReturned /\ Len(local.results) = 2
  /\ local.results = local.menu.meals
  /\ local.results[1] # local.results[2]

\* the filter threw on a meal without ingredients that no earlier field
\* matched, and the handler returned the error
C20_SearchThrew ==
  /\ tool = "cookunity_search_meals" /\ at = "returned"
  /\ "menu" \in DOMAIN local /\ "results" \notin DOMAIN local
  /\ reply = handleError(TypeError)


\* a handler got its list of meals and went on to format a page of them
MealsToFormat ==
  /\ at = "returned"
  /\ \/ tool = "cookunity_get_menu" /\ "meals" \in DOMAIN local
     \/ tool = "cookunity_search_meals" /\ "results" \in DOMAIN local

\* C21 as stated: formatting a meal never fails and the formatted meal has
\* chef, category and tags, the tags holding all four arrays (a missing one
\* as an empty array), whatever relations and arrays the upstream meal lacks
C21_NormalizedMealComplete ==
  MealsToFormat =>
    /\ "structuredContent" \in DOMAIN reply
    /\ \A i \in 1..Len(reply.structuredContent.meals) :
         LET m == reply.structuredContent.meals[i] IN
         /\ {"chef", "category", "tags"} \subseteq DOMAIN m
         /\ DOMAIN m.tags = {"cuisines", "diet_tags", "protein_tags", "ingredients"}

\* formatMeal threw on a meal without chef and the handler returned the error
C21_FormatThrew ==
  /\ MealsToFormat /\ tool = "cookunity_get_menu"
  /\ reply = handleError(TypeError)
  /\ \E i \in 1..Len(local.meals) : "chef" \notin DOMAIN local.meals[i]

\* a meal without its ingredients array was formatted with tags that have no
\* ingredients
C21_TagsIncomplete ==
  /\ MealsToFormat /\ "structuredContent" \in DOMAIN reply
  /\ \E i \in 1..Len(reply.structuredContent.meals) :
       "ingredients" \notin DOMAIN reply.structuredContent.meals[i].tags

\* what formatMeal does guarantee: a meal that has chef, category and
\* searchBy is formatted, with exactly the tag arrays its searchBy has
C21_FormattedAsGiven ==
  (MealsToFormat /\ tool = "cookunity_get_menu") =>
    LET paged == slice(local.meals, params.offset, params.offset + params.limit) IN
    IF \A i \in 1..Len(paged) : {"chef", "category", "searchBy"} \subseteq DOMAIN paged[i]
      THEN /\ "structuredContent" \in DOMAIN reply
           /\ \A i \in 1..Len(paged) :
                Cardinality(DOMAIN reply.structuredContent.meals[i].tags)
                  = Cardinality(DOMAIN paged[i].searchBy
                                  \cap {"cuisines", "dietTags", "proteinTags", "ingredients"})
      ELSE "isError" \in DOMAIN reply


\* the invocation is one of skip_delivery and unskip_delivery
Skipping == tool \in {"cookunity_skip_delivery", "cookunity_unskip_delivery"}

\* the mutation each of the two tools sends
MutationOf(name) ==
  IF name = "cookunity_skip_delivery" THEN "skipDelivery" ELSE "unskipDelivery"

\* the invalid-date error of skip_delivery and unskip_delivery was returned
InvalidDateReply ==
  /\ Skipping /\ at = "returned" /\ "days" \in DOMAIN local
  /\ \A i \in 1..Len(local.days) : local.days[i].date # params.date

\* C23: skip_delivery and unskip_delivery fetch the upcoming days first and
\* send createSkip / createUnskip only when the requested date is the date
\* of one of the fetched days; for any other date they return an error that
\* lists the days' dates and send no mutation
C23_MutationOnlyForUpcomingDate ==
  Skipping =>
    /\ calls[1] = [op |-> "getUpcomingDays"]
    /\ Len(calls) <= 2
    /\ Len(calls) = 2 =>
         /\ calls[2] = [op |-> MutationOf(tool), date |-> params.date]
         /\ \E i \in 1..Len(local.days) : local.days[i].date = params.date
    /\ InvalidDateReply =>
         /\ Len(calls) = 1
         /\ "isError" \in DOMAIN reply /\ reply.isError
         /\ reply.text = "Error: \"" \o params.date
              \o "\" is not a valid delivery date. Available dates: "
              \o MessagesUpTo([i \in 1..Len(local.days) |-> local.days[i].date],
                              Len(local.days))
              \o ". Use cookunity_list_deliveries to see your delivery calendar."

\* C23 witness: the requested date is only the display date of an upcoming
\* day, whose date is a timestamp: the error lists the dates, nothing is sent
C23_Witness ==
  /\ InvalidDateReply /\ tool = "cookunity_skip_delivery"
  /\ \E i \in 1..Len(local.days) : local.days[i].displayDate = params.date
  /\ Len(calls) = 1

\* unskip_delivery sent its mutation for a date among the fetched days
C23_UnskipSent ==
  /\ tool = "cookunity_unskip_delivery" /\ Len(calls) = 2
  /\ calls[2].op = "unskipDelivery"


\* the invocation's last upstream step failed: an api call threw into the
\* handler's catch clause, or a mutation answered with an OrderCreationError
UpstreamThrew == "error" \in DOMAIN local

DomainRejected ==
  "result" \in DOMAIN local /\ local.result.__typename = "OrderCreationError"

\* the reply is one error result: a text, isError = true, no structured content
IsErrorResult(r) ==
  /\ "text" \in DOMAIN r /\ "isError" \in DOMAIN r /\ r.isError
  /\ "structuredContent" \notin DOMAIN r

\* C22: a failure inside an invocation (authentication, transport, GraphQL
\* error, domain rejection) ends it at once with a single error result that
\* carries the failure's message; a handler that returns always returns a
\* result, and a success result is returned only when no step failed other
\* than the profile lookup of confirm_order
C22_FailuresSurfaceAsErrorResult ==
  /\ UpstreamThrew =>
       /\ at = "returned"
       /\ IsErrorResult(reply)
       /\ reply.text = "Error: " \o local.error.message
  /\ DomainRejected => (at = "returned" /\ IsErrorResult(reply))
  /\ at = "returned" => (IsErrorResult(reply) \/ "structuredContent" \in DOMAIN reply)
  /\ "structuredContent" \in DOMAIN reply =>
       /\ ~UpstreamThrew /\ ~DomainRejected
       /\ "isError" \notin DOMAIN reply

\* C22 witness: confirm_order swallowed a failed profile lookup, createOrder
\* then failed with the 401 error and that error was returned
C22_Witness ==
  /\ tool = "cookunity_confirm_order" /\ at = "returned"
  /\ "profile" \in DOMAIN local /\ ~local.profile.ok
  /\ UpstreamThrew
  /\ reply = [text |-> "Error: Authentication expired. Please check your COOKUNITY_EMAIL and COOKUNITY_PASSWORD.",
              isError |-> TRUE]

\* a success was returned after the swallowed profile failure
C22_SwallowedThenSuccess ==
  /\ tool = "cookunity_confirm_order" /\ at = "returned"
  /\ "profile" \in DOMAIN local /\ ~local.profile.ok
  /\ "structuredContent" \in DOMAIN reply

\* a domain rejection of createSkip came back as an error result
C22_SkipRejected ==
  /\ tool = "cookunity_skip_delivery" /\ DomainRejected /\ IsErrorResult(reply)

\* ---------------------------------------------------------------------
\* C24: the default date

\* getNextMonday has been evaluated
DefaultTaken == defaultDate # "none"

\* the day a date string names, counted from Monday 2026-02-16
DayNamed(date) == (CHOOSE i \in 1..Len(ISODates) : ISODates[i] = date) - 1

\* the calendar day of today where the process runs
LocalToday == DayOf(LocalHours(today))

\* a day that is a Monday (day 0 is one)
IsMonday(day) == day % DAYS_PER_WEEK = 0

\* C24: when no date is supplied, the default date is a Monday lying 1 to 7
\* days after today, whatever the weekday of today: Sunday gives the next
\* day, Saturday the day after the next, and a Monday the Monday one week
\* later, never today.
C24_DefaultIsNextMonday ==
  DefaultTaken =>
    /\ IsMonday(DayNamed(defaultDate))
    /\ DayNamed(defaultDate) - LocalToday \in 1..DAYS_PER_WEEK

\* where the process runs in UTC the default date is that Monday
C24_NextMondayInUTC ==
  (DefaultTaken /\ today.zone = 0) =>
    /\ IsMonday(DayNamed(defaultDate))
    /\ DayNamed(defaultDate) - LocalToday \in 1..DAYS_PER_WEEK
    /\ (getDay(today) = 0 => DayNamed(defaultDate) - LocalToday = 1)
    /\ (getDay(today) = 6 => DayNamed(defaultDate) - LocalToday = 2)
    /\ (getDay(today) = 1 => DayNamed(defaultDate) - LocalToday = DAYS_PER_WEEK)

\* west of UTC on a Sunday evening the default date is a Tuesday
C24_TuesdayReturned ==
  /\ DefaultTaken
  /\ today.zone < 0
  /\ getDay(today) = 0
  /\ DayNamed(defaultDate) % DAYS_PER_WEEK = 1
  /\ DayNamed(defaultDate) - LocalToday = 2

\* east of UTC in the first hours of a day the default date is a Sunday
C24_SundayReturned ==
  /\ DefaultTaken
  /\ today.zone > 0
  /\ DayNamed(defaultDate) % DAYS_PER_WEEK = 6

\* a handler that was given no date asked for a day that is not a Monday
C24_HandlerAsksForTuesday ==
  /\ tool \in {"cookunity_get_menu", "cookunity_search_meals", "cookunity_get_price_breakdown"}
  /\ "date" \notin DOMAIN params
  /\ "date" \in DOMAIN local
  /\ ~IsMonday(DayNamed(local.date))

\* ---------------------------------------------------------------------
\* C25: the order of the handshake's steps

\* the step sends the first authorize request of caller c
SendsAuthorize(c) ==
  /\ event'.type = "request" /\ event'.caller = c
  /\ event'.request.to = "/authorize" /\ event'.request.hop = 0

\* the step sends the token-exchange request of caller c
SendsExchange(c) ==
  /\ event'.type = "request" /\ event'.caller = c
  /\ event'.request.to = "/oauth/token"

\* the step ends the attempt of caller c for a missing ticket or a missing
\* access token
EndsForMissing(c) ==
  /\ event'.type = "threw" /\ event'.caller = c
  /\ event'.cause.message \in {"Failed to get login ticket", "Failed to get access token"}

\* C25: the handshake's network steps are strictly ordered: the authorize
\* request is sent only in the step that received a login ticket and carries
\* it, the token exchange is sent only in the step in which an authorize
\* response carried a code and carries that code, the token slot is written
\* only in the step in which the token exchange returned an access token,
\* and each request follows the one before it; a missing ticket or a missing
\* access token ends the attempt: nothing is sent, nothing is written and the
\* call is over.
C25_HandshakeOrdered ==
  [][\A c \in Callers :
       /\ SendsAuthorize(c)
            => /\ pc[c] = "ticket"
               /\ \E data \in TicketResponses :
                    /\ Truthy(data, "login_ticket")
                    /\ event'.request.login_ticket = data.login_ticket
       /\ (pc'[c] = "authorize" /\ pc[c] # "authorize") => SendsAuthorize(c)
       /\ SendsExchange(c)
            => /\ pc[c] = "authorize"
               /\ event'.request.code \in Codes
       /\ (pc'[c] = "exchange") => (pc[c] = "exchange" \/ SendsExchange(c))
       /\ (pc'[c] = "ticket") => pc[c] \in {"idle", "ticket"}
       /\ (tokens' # tokens /\ event'.caller = c)
            => /\ pc[c] = "exchange"
               /\ event'.type = "token"
               /\ event'.tokenData.access_token # 0
               /\ tokens'.access_token = event'.tokenData.access_token
       /\ tokens' # tokens => event'.type = "token"
       /\ EndsForMissing(c)
            => /\ pc[c] = (IF event'.cause.message = "Failed to get login ticket"
                             THEN "ticket" ELSE "exchange")
               /\ pc'[c] = "idle"
               /\ tokens' = tokens
               /\ issued' = issued]_vars

\* C25 witness: a handshake went through all three steps and wrote the slot
C25_Witness ==
  /\ TokenReturned /\ event.path = "renewed"
  /\ tokens # NULL /\ tokens.access_token = event.tokenData.access_token

\* an attempt ended for a missing login ticket
C25_MissingTicket ==
  /\ AuthFailed /\ event.cause.message = "Failed to get login ticket"
  /\ pc[event.caller] = "idle"

\* an attempt ended for a missing access token while the other caller waits
\* for its own token exchange
C25_MissingAccessToken ==
  /\ AuthFailed /\ event.cause.message = "Failed to get access token"
  /\ pc[event.caller] = "idle"
  /\ \E d \in Callers \ {event.caller} : pc[d] = "exchange"

\* ---------------------------------------------------------------------
\* C26: the redirect loop

\* the step sends a further authorize request of caller c
FollowsRedirect(c) ==
  /\ event'.type = "request" /\ event'.caller = c
  /\ event'.request.to = "/authorize" /\ event'.request.hop > 0

\* the step ends the attempt of caller c because no code was found
EndsWithoutCode(c) ==
  /\ event'.type = "threw" /\ event'.caller = c
  /\ event'.cause.message = "Failed to obtain authorization code"

\* C26: redirect following is bounded and stops at the first code.  While
\* caller c is in the loop, hop[c] is the number of redirects without a code
\* it has followed, one authorize request each, and one more is in flight.
\* The loop goes on only from a redirect that has no code; the token exchange
\* is sent by the step that receives the first code, after exactly N + 1
\* requests for N redirects without one, N + 1 <= 5; the attempt fails for
\* want of a code only when exactly 5 requests were made, and then no token
\* exchange is sent.  Every answered loop terminates.
C26_RedirectsBounded ==
  /\ [](\A c \in Callers : hop[c] < MAX_HOPS)
  /\ [][\A c \in Callers :
          /\ FollowsRedirect(c)
               => /\ pc[c] = "authorize" /\ pc'[c] = "authorize"
                  /\ event'.request.hop = hop[c] + 1
                  /\ hop'[c] = hop[c] + 1
                  /\ ~Truthy(event'.request.url, "code")
          /\ SendsAuthorize(c) => hop'[c] = 0
          /\ (pc[c] = "authorize" /\ pc'[c] = "authorize" /\ hop'[c] # hop[c])
               => FollowsRedirect(c)
          /\ SendsExchange(c)
               => /\ event'.hops = hop[c] + 1
                  /\ event'.hops \in 1..MAX_HOPS
                  /\ event'.request.code \in Codes
          /\ EndsWithoutCode(c)
               => /\ pc[c] = "authorize"
                  /\ hop[c] + 1 = MAX_HOPS
                  /\ pc'[c] = "idle"
                  /\ tokens' = tokens]_vars
  /\ \A c \in Callers : (pc[c] = "authorize") ~> (pc[c] # "authorize")

\* C26 witness: a code came after two redirects without one and the token
\* exchange was sent after three authorize requests
C26_Witness ==
  /\ event.type = "request" /\ event.request.to = "/oauth/token"
  /\ event.hops = 3

\* a code came with the fifth response
C26_CodeAtCap ==
  /\ event.type = "request" /\ event.request.to = "/oauth/token"
  /\ event.hops = MAX_HOPS

\* five responses without a code ended the attempt
C26_CapReached ==
  /\ AuthFailed /\ event.cause.message = "Failed to obtain authorization code"
  /\ pc[event.caller] = "idle"

\* ---------------------------------------------------------------------
\* C27: the cost of a token acquisition

\* the token-exchange request of caller c has just been sent
ExchangeSent(c) ==
  /\ pc[c] = "exchange"
  /\ event.type = "request" /\ event.caller = c
  /\ event.request.to = "/oauth/token"

\* the requests the getAccessToken call of caller c has made to the identity
\* provider when it waits for the ticket, waits in the redirect loop, or has
\* just sent the token exchange, its last request
HandshakeRequests(c) ==
  IF pc[c] = "ticket" THEN 1
  ELSE IF pc[c] = "authorize" THEN 1 + (hop[c] + 1)
  ELSE IF ExchangeSent(c) THEN 1 + event.hops + 1
  ELSE 0

\* the token exchange is the last request of the handshake: the step that
\* takes its answer returns the token or throws
ExchangeIsLast ==
  [][\A c \in Callers :
       (pc[c] = "exchange" /\ pc'[c] # "exchange")
         => /\ event'.caller = c
            /\ event'.type \in {"token", "threw"}]_vars

C27_ThreeRequests ==
  \E c \in Callers : ExchangeSent(c) /\ HandshakeRequests(c) = 3

\* ---------------------------------------------------------------------
\* C28: the expiry instant of a renewed token

\* the step processes a token-exchange response of caller c that carries an
\* access token
CompletesHandshake(c) ==
  /\ pc[c] = "exchange"
  /\ event'.type = "token" /\ event'.caller = c /\ event'.path = "renewed"

\* C28: after a successful handshake the cached token's expiry instant is
\* the time at which the token-exchange response is processed, whenever the
\* handshake started, plus the expiry duration the token endpoint returned,
\* in seconds converted to milliseconds.
C28_ExpiryFromCompletion ==
  [][\A c \in Callers :
       CompletesHandshake(c)
         => /\ tokens' # NULL
            /\ "expires_in" \in DOMAIN event'.tokenData
                 => tokens'.expires_at = clock' + event'.tokenData.expires_in * 1000
            /\ "expires_in" \notin DOMAIN event'.tokenData
                 => tokens'.expires_at = clock' + 86400 * 1000
            /\ event'.expires_at = tokens'.expires_at
            /\ event'.at = clock']_vars

\* C28 witness: a handshake completed two seconds after the process started
\* and its token, returned with a duration of 61 s, expires 61000 ms later
C28_Witness ==
  /\ TokenReturned /\ event.path = "renewed"
  /\ "expires_in" \in DOMAIN event.tokenData /\ event.tokenData.expires_in = 61
  /\ clock = MaxSeconds * MS_PER_SECOND
  /\ tokens.expires_at = clock + 61000

\* the clock advanced while a handshake waited for its token exchange
C28_TickDuringHandshake ==
  /\ event.type = "tick"
  /\ \E c \in Callers : pc[c] = "exchange"

\* a token returned without a duration expires a day after the completion
C28_DefaultDuration ==
  /\ TokenReturned /\ event.path = "renewed"
  /\ "expires_in" \notin DOMAIN event.tokenData
  /\ clock > 0
  /\ tokens.expires_at = clock + 86400000

\* ---------------------------------------------------------------------
\* C29: a failed data call and the cached token

\* the step settles the data call of caller c
Settles(c) ==
  /\ pc[c] = "post"
  /\ event'.type = "settled" /\ event'.caller = c

\* C29: an HTTP 401, or any other outcome, of a data call leaves the cached
\* token unchanged, neither cleared nor renewed, and starts no handshake;
\* every call made, at any later time, while the cached token is inside its
\* validity margin sends that token again without a request to the identity
\* provider.
C29_FailureKeepsToken ==
  [][\A c \in Callers :
       /\ Settles(c)
            => /\ tokens' = tokens
               /\ issued' = issued
               /\ \A d \in Callers : pc'[d] \in {"ticket", "authorize", "exchange"}
                                        => pc'[d] = pc[d]
       /\ (Begins(c) /\ Usable)
            => /\ event'.type = "token" /\ event'.path = "cached"
               /\ event'.request.Authorization = tokens.access_token
               /\ pc'[c] = "post"
               /\ tokens' = tokens]_vars

\* C29 witness: a data call was answered 401 and the token it was sent with
\* is still cached and inside its validity margin
C29_Witness ==
  /\ HttpFailed /\ StatusOf(event.cause) = 401
  /\ Usable /\ tokens.access_token = issued

\* a data call timed out and the cached token, past its margin, is kept
C29_ExpiredKept ==
  /\ HttpFailed /\ "response" \notin DOMAIN event.cause
  /\ tokens # NULL /\ ~Usable

\* ---------------------------------------------------------------------
\* C30: what confirm_order orders

\* the k-th api call of the invocation is the createOrder mutation
IsCreateOrder(k) == calls[k].op = "createOrder"

\* the day is one of a response of upcomingDays
IsUpcomingDay(day) ==
  \E days \in CartDays : \E j \in 1..Len(days) : days[j] = day

\* the products are the lines of the cart, one product per line with its
\* quantity and inventory id, in the cart's order
SameLines(products, cart) ==
  /\ Len(products) = Len(cart)
  /\ \A i \in 1..Len(cart) :
       /\ products[i].qty = cart[i].qty
       /\ products[i].inventoryId = cart[i].product.inventoryId
       /\ DOMAIN products[i] = {"qty", "inventoryId"}

\* C30: a createOrder mutation is sent only by confirm_order, after the same
\* invocation fetched the upcoming days and found a day whose date equals
\* the requested date and whose cart is not empty; it is sent for that date
\* and its products are exactly the lines of that fetched cart.  It is never
\* sent with an empty product list or for a date that is not an upcoming day.
C30_OrderFromFetchedCart ==
  \A k \in 1..Len(calls) :
    IsCreateOrder(k)
      => /\ tool = "cookunity_confirm_order"
         /\ k = 3
         /\ calls[1].op = "getUpcomingDays"
         /\ \A j \in 1..Len(calls) : j # k => ~IsCreateOrder(j)
         /\ "day" \in DOMAIN local
         /\ IsUpcomingDay(local.day)
         /\ local.day.date = params.date
         /\ calls[k].order.deliveryDate = params.date
         /\ "cart" \in DOMAIN local.day
         /\ Len(local.day.cart) > 0
         /\ SameLines(calls[k].order.products, local.day.cart)
         /\ Len(calls[k].order.products) > 0

\* C30 witness: createOrder was sent with the three lines of the cart of the
\* requested day, the second of the days fetched
C30_Witness ==
  /\ Len(calls) = 3 /\ IsCreateOrder(3)
  /\ Len(local.day.cart) = 3
  /\ calls[3].order.products[2] = [qty |-> 3, inventoryId |-> "ii-1"]

\* the requested date matched the displayDate of a fetched day only, and
\* nothing was ordered
C30_TimestampDateNotOrdered ==
  /\ tool = "cookunity_confirm_order" /\ params.date = D2
  /\ at = "returned" /\ Len(calls) = 1
  /\ "error" \notin DOMAIN local
====
